---- MODULE Spec2Model ----
(***************************************************************************)
(* A state-machine model of PDFSignatureApp (src/app.py): the overlay      *)
(* interaction engine of a Tk application that places text and image       *)
(* annotations on the pages of a PDF and writes them back on save.         *)
(*                                                                         *)
(* The state is the application object's attributes together with the Tk   *)
(* state its handlers read and write: the canvas display list, the Entry   *)
(* widgets opened for inline editing, the keyboard focus, the pending      *)
(* `after` callbacks and the state of the mouse button.  Every handler is  *)
(* an operator from a state record to a state record, written in the order *)
(* of the handler's statements; an action applies one handler to the       *)
(* current state.                                                          *)
(*                                                                         *)
(* Numbers.  The program computes with Python floats.  A float is modelled *)
(* as a fixed-point number: the integer n stands for n / Unit.  Every      *)
(* product and quotient is rounded to the nearest multiple of 1 / Unit, as *)
(* every float operation rounds its exact result; sums and differences are *)
(* exact.  Pointer coordinates and Tk's item boxes are whole pixels.       *)
(***************************************************************************)
EXTENDS Integers, Sequences, FiniteSets, TLC

(***************************************************************************)
(* Bounds of the exploration.                                              *)
(***************************************************************************)
\* Element objects alive at once (in the list, or still referenced by a
\* pending callback or by the bindings of an Entry).
MaxElems == 2
\* Entry widgets alive at once.
MaxEntries == 2
\* Items on the canvas at once.
MaxItems == 7
\* Pending after(1000, ...) callbacks of the size feedback at once.
MaxFeedback == 1
\* Zoom in / zoom out presses, ctrl+scroll events and pointer-motion events
\* of one run of the whole application (Spec).
MaxZoom == 2
MaxScroll == 1
MaxDrag == 1
\* Events of one run of the whole application (Spec).
MaxSteps == 10
\* Pointer-motion events and elements of one run of viewing and moving
\* (SpecView).
MaxViewDrag == 1
MaxViewElems == 1
\* Ctrl+scroll events, changes of direction between them and elements of
\* one run of resizing (SpecResize).
MaxResize == 30
MaxTurns == 1
MaxResizeElems == 1

(***************************************************************************)
(* Fixed-point arithmetic.                                                 *)
(***************************************************************************)
Unit == 10 * 1000

\* The float of a whole number.
F(n) == n * Unit

Max2(a, b) == IF a >= b THEN a ELSE b
Min2(a, b) == IF a <= b THEN a ELSE b

\* a * b for a factor b > 0 below 20 (zoom, resize factor, scale).
FMul(a, b) ==
    LET q == a \div Unit
        r == a % Unit
    IN  q * b + ((r * b + Unit \div 2) \div Unit)

\* a / b for a divisor b > 0 below 20.
FDiv(a, b) ==
    LET q == a \div b
        r == a % b
    IN  q * Unit + ((r * Unit + b \div 2) \div b)

\* Python's int(): truncation toward zero, in whole units.
TruncInt(a) == IF a >= 0 THEN a \div Unit ELSE -((-a) \div Unit)

\* Tk's (int)(v + 0.5) for an item coordinate.
TkRound(a) == TruncInt(a + Unit \div 2)

\* [lo .. hi] of a non-empty finite set of integers.
MinOf(A) == CHOOSE a \in A : \A b \in A : a <= b

(***************************************************************************)
(* The documents on disk: the collaborator fitz.open reads.  A path is a   *)
(* number; the document at it is the sequence of its pages' sizes in       *)
(* points.  Pages of one document may differ in size.                      *)
(***************************************************************************)
None == 0

Letter == [width |-> 612, height |-> 792]
HalfLetter == [width |-> 306, height |-> 396]

PathA == 1
PathB == 2
Paths == {PathA, PathB}

Pages(path) == IF path = PathA THEN <<Letter, HalfLetter>> ELSE <<Letter>>

(***************************************************************************)
(* Texts are sequences of characters.                                      *)
(***************************************************************************)
DefaultText == <<"T", "e", "x", "t">>
ImageContent == <<"<image>">>

(***************************************************************************)
(* The state.                                                              *)
(***************************************************************************)
VARIABLES
    \* PDFSignatureApp attributes
    pdf_doc,            \* the path of the document self.pdf_doc was opened from, or None
    doc_closed,         \* self.pdf_doc.close() has been called on it
    pdf_file_path,
    signature_elements, \* the list: a sequence of element objects (ids)
    elem,               \* the SignatureElement objects, by id
    current_page,
    selected_element,   \* an element id, or None
    drag_data,
    is_editing_text,
    text_entry,         \* an Entry id, or None
    page_scale_factor,
    zoom_level,
    base_scale_factor,  \* 0 while the attribute does not exist yet
    signature_name,
    selected_color_var,
    \* Tk
    canvas,             \* the display list, bottom item first
    entries,            \* the Entry widgets, by id
    focus,              \* the Entry with the keyboard focus, or None
    focus_out,          \* the Entry whose <FocusOut> is queued, or None
    edit_timers,        \* elements with a pending after(100, start_text_editing)
    feedback_timers,    \* pending after(1000, delete "size_feedback")
    dialog,             \* the modal dialog that is open, or "none"
    \* the user
    pointer,            \* where the pointer was at the last mouse event
                        \* of the canvas, while mouse button 1 is held down
                        \* over it: a set of at most one point
    last_scroll,        \* the direction of the last ctrl+scroll event:
                        \* "up", "down", or "none"
    armed,              \* mouse button 1 is held down over a button of the panel
    last_press,         \* where the last canvas press was, while a second
                        \* press there would be a double click: a set of
                        \* at most one point
    \* the file system
    output,             \* the files save_pdf wrote: a sequence of at most
                        \* one, the last
    \* the exploration
    quota,
    used

vars == << pdf_doc, doc_closed, pdf_file_path, signature_elements, elem, current_page,
           selected_element, drag_data, is_editing_text, text_entry,
           page_scale_factor, zoom_level, base_scale_factor, signature_name,
           selected_color_var, canvas, entries, focus, focus_out, edit_timers,
           feedback_timers, dialog, pointer, last_scroll, armed, last_press, output,
           quota, used >>

canvas_width == 700

ElemIds == 1 .. MaxElems
EntryIds == 1 .. MaxEntries

\* A slot of `elem` that holds no object.
NoElem ==
    [element_type |-> "none", content |-> <<>>, x |-> 0, y |-> 0,
     width |-> 0, height |-> 0, page_num |-> 0, canvas_id |-> None,
     text_color |-> "black"]

\* A slot of `entries` that holds no widget.
NoEntry == [element |-> None, text |-> <<>>, mapped |-> FALSE]

\* The current state as one record.  `overflow` is set by a handler that
\* needs an object beyond the bounds of the exploration; no step is taken to
\* such a state.
S ==
    [pdf_doc |-> pdf_doc, doc_closed |-> doc_closed,
     pdf_file_path |-> pdf_file_path,
     signature_elements |-> signature_elements, elem |-> elem,
     current_page |-> current_page, selected_element |-> selected_element,
     drag_data |-> drag_data, is_editing_text |-> is_editing_text,
     text_entry |-> text_entry, page_scale_factor |-> page_scale_factor,
     zoom_level |-> zoom_level, base_scale_factor |-> base_scale_factor,
     signature_name |-> signature_name,
     selected_color_var |-> selected_color_var, canvas |-> canvas,
     entries |-> entries, focus |-> focus, focus_out |-> focus_out,
     edit_timers |-> edit_timers, feedback_timers |-> feedback_timers,
     dialog |-> dialog, pointer |-> pointer, last_scroll |-> last_scroll,
     armed |-> armed,
     last_press |-> last_press, output |-> output, overflow |-> FALSE]

(***************************************************************************)
(* The Tk canvas.  An item is a record: `id` is the handle create_image /  *)
(* create_text returned when an element keeps it in canvas_id, and None    *)
(* for the items no element ever holds (page raster, borders, feedback,    *)
(* Entry windows); `of` is the element a signature item was drawn for;     *)
(* x1, y1, x2, y2 is the item's box in whole pixels; `win` is the Entry a  *)
(* window item embeds.  Tk never hands the same id out twice; an id is     *)
(* reused here only when no item and no element holds it, which no handler *)
(* can tell from a new id.                                                 *)
(***************************************************************************)
Item(id, kind, of, x1, y1, x2, y2, win) ==
    [id |-> id, kind |-> kind, of |-> of, x1 |-> x1, y1 |-> y1,
     x2 |-> x2, y2 |-> y2, win |-> win]

ItemIds(T) == {T.canvas[i].id : i \in 1 .. Len(T.canvas)} \ {None}

HeldIds(T) == {T.elem[e].canvas_id : e \in ElemIds} \ {None}

NewItemId(T) ==
    MinOf((1 .. (Len(T.canvas) + MaxElems + 1)) \ (ItemIds(T) \cup HeldIds(T)))

\* canvas.delete(item id): no effect when the id names no item.
canvas_delete(T, id) ==
    [T EXCEPT !.canvas = SelectSeq(T.canvas, LAMBDA it : it.id # id)]

\* canvas.delete(tag)
canvas_delete_tag(T, tag) ==
    [T EXCEPT !.canvas = SelectSeq(T.canvas, LAMBDA it : it.kind # tag)]

\* canvas.move(item id, dx, dy), in whole pixels
canvas_move(T, id, dx, dy) ==
    [T EXCEPT !.canvas =
        [i \in 1 .. Len(T.canvas) |->
            IF T.canvas[i].id = id /\ id # None
            THEN [T.canvas[i] EXCEPT !.x1 = @ + dx, !.x2 = @ + dx,
                                     !.y1 = @ + dy, !.y2 = @ + dy]
            ELSE T.canvas[i]]]

\* The size in pixels Tk lays a text out to, from the font's size and the
\* number of characters: the window system's font metrics.
TextWidth(content, font_size) == (Len(content) * font_size) \div 2
TextHeight(font_size) == font_size + font_size \div 2

\* The font size draw_element_on_canvas gives to create_text.
text_font_size(T, e) ==
    LET zoomed_height == FMul(T.elem[e].height, T.zoom_level)
    IN  Max2(8, TruncInt(zoomed_height - F(2)))

\* draw_element_on_canvas(element)
draw_element_on_canvas(T, e) ==
    LET el == T.elem[e]
        zoomed_x == FMul(el.x, T.zoom_level)
        zoomed_y == FMul(el.y, T.zoom_level)
        zoomed_width == FMul(el.width, T.zoom_level)
        zoomed_height == FMul(el.height, T.zoom_level)
        id == NewItemId(T)
        x1 == TkRound(zoomed_x)
        y1 == TkRound(zoomed_y)
        font_size == text_font_size(T, e)
        item ==
            IF el.element_type = "image"
            THEN Item(id, "signature", e, x1, y1,
                      x1 + TruncInt(zoomed_width), y1 + TruncInt(zoomed_height), None)
            ELSE Item(id, "signature", e, x1, y1,
                      x1 + TextWidth(el.content, font_size),
                      y1 + TextHeight(font_size), None)
    IN  [T EXCEPT !.canvas = Append(@, item), !.elem[e].canvas_id = id]

\* show_selection_border(element): the dashed border and its resize handle,
\* as one item.  Borders are only ever deleted by tag, so a border equal to
\* one already shown is not kept twice.
show_selection_border(T, e) ==
    LET el == T.elem[e]
        zoomed_x == FMul(el.x, T.zoom_level)
        zoomed_y == FMul(el.y, T.zoom_level)
        zoomed_width == FMul(el.width, T.zoom_level)
        zoomed_height == FMul(el.height, T.zoom_level)
        border_margin == F(5)
        item == Item(None, "selection_border", e,
                     TkRound(zoomed_x - border_margin),
                     TkRound(zoomed_y - border_margin),
                     TkRound(zoomed_x + zoomed_width + border_margin),
                     TkRound(zoomed_y + zoomed_height + border_margin), None)
    IN  IF \E i \in 1 .. Len(T.canvas) : T.canvas[i] = item
        THEN T
        ELSE [T EXCEPT !.canvas = Append(@, item)]

\* render_signatures(): the elements of the current page, in list order.
RECURSIVE render_from(_, _)
render_from(T, i) ==
    IF i > Len(T.signature_elements)
    THEN T
    ELSE LET e == T.signature_elements[i]
         IN  IF T.elem[e].page_num = T.current_page
             THEN render_from(draw_element_on_canvas(T, e), i + 1)
             ELSE render_from(T, i + 1)

render_signatures(T) == render_from(T, 1)

\* update_page_display(); on a closed document `if not self.pdf_doc` raises
\* and the caller ends with it.
update_page_display(T) ==
    IF T.pdf_doc = None \/ T.doc_closed
    THEN T
    ELSE LET page_rect == Pages(T.pdf_doc)[T.current_page + 1]
             base_scale ==
                 IF page_rect.width > 0
                 THEN (canvas_width * Unit + page_rect.width \div 2) \div page_rect.width
                 ELSE F(1)
             scale == FMul(base_scale, T.zoom_level)
             pil_width == TkRound(FMul(F(page_rect.width), scale))
             pil_height == TkRound(FMul(F(page_rect.height), scale))
             canvas_center_x == canvas_width \div 2
             image_center_x == pil_width \div 2
             x_offset == Max2(0, canvas_center_x - image_center_x)
             page == Item(None, "pdf_page", None, x_offset, 0,
                          x_offset + pil_width, pil_height, None)
         IN  render_signatures(
                 [T EXCEPT !.selected_element = None,
                           !.page_scale_factor = scale,
                           !.base_scale_factor = base_scale,
                           !.canvas = <<page>>,
                           !.entries = [n \in EntryIds |-> [@[n] EXCEPT !.mapped = FALSE]]])

(***************************************************************************)
(* Objects.  A Python object lives while something refers to it: an        *)
(* element while it is in the list, selected, captured by a pending        *)
(* callback or by the bindings of a live Entry; an Entry while it is       *)
(* self.text_entry, shown on the canvas, or holds (or is about to lose)    *)
(* the focus.  An Entry that is none of these can receive no event.        *)
(***************************************************************************)
InList(T, e) == \E i \in 1 .. Len(T.signature_elements) : T.signature_elements[i] = e

LiveEntry(T, n) ==
    /\ T.entries[n] # NoEntry
    /\ \/ T.text_entry = n
       \/ T.entries[n].mapped
       \/ T.focus = n
       \/ T.focus_out = n

LiveElem(T, e) ==
    \/ InList(T, e)
    \/ T.selected_element = e
    \/ e \in T.edit_timers
    \/ \E n \in EntryIds : LiveEntry(T, n) /\ T.entries[n].element = e

\* Reclaim what nothing refers to.
Collect(T) ==
    [T EXCEPT !.entries = [n \in EntryIds |-> IF LiveEntry(T, n) THEN @[n] ELSE NoEntry],
              !.elem = [e \in ElemIds |-> IF LiveElem(T, e) THEN @[e] ELSE NoElem]]

FreeElems(T) == {e \in ElemIds : T.elem[e] = NoElem}
FreeEntries(T) == {n \in EntryIds : T.entries[n] = NoEntry}

\* SignatureElement(...): a new object in the first free slot.
NewElem(T, el) ==
    IF FreeElems(T) = {}
    THEN [T EXCEPT !.overflow = TRUE]
    ELSE [T EXCEPT !.elem[MinOf(FreeElems(T))] = el]

\* str.strip()
IsSpace(c) == c = " "

RECURSIVE lstrip(_)
lstrip(s) == IF s # <<>> /\ IsSpace(Head(s)) THEN lstrip(Tail(s)) ELSE s

RECURSIVE rstrip(_)
rstrip(s) ==
    IF s # <<>> /\ IsSpace(s[Len(s)]) THEN rstrip(SubSeq(s, 1, Len(s) - 1)) ELSE s

strip(s) == rstrip(lstrip(s))

\* The height in pixels of an Entry in a font of the given size.
EntryHeight(font_size) == TextHeight(Max2(1, font_size)) + 4

\* widget.focus_set(): the focus moves; the widget that held it gets a
\* <FocusOut> event, queued, unless the window is not the active one.
focus_set(T, n) ==
    [T EXCEPT !.focus = n,
              !.focus_out = IF T.focus # None /\ T.focus # n /\ T.dialog = "none"
                            THEN T.focus ELSE @]

\* widget.destroy(): the widget, and the canvas window that showed it.
destroy(T, n) ==
    [T EXCEPT !.entries[n] = NoEntry,
              !.canvas = SelectSeq(T.canvas, LAMBDA it : it.win # n),
              !.focus = IF @ = n THEN None ELSE @,
              !.focus_out = IF @ = n THEN None ELSE @]

\* start_text_editing(element)
start_text_editing(T, e) ==
    LET el == T.elem[e] IN
    IF el.element_type # "text"
    THEN T
    ELSE IF FreeEntries(T) = {}
    THEN [T EXCEPT !.overflow = TRUE]
    ELSE
    LET T1 == [T EXCEPT !.is_editing_text = TRUE]
        T2 == IF el.canvas_id # None THEN canvas_delete(T1, el.canvas_id) ELSE T1
        zoomed_font_size == TruncInt(FMul(el.height - F(2), T.zoom_level))
        zoomed_x == FMul(el.x, T.zoom_level)
        zoomed_y == FMul(el.y, T.zoom_level)
        zoomed_width == FMul(el.width, T.zoom_level)
        n == MinOf(FreeEntries(T))
        x1 == TkRound(zoomed_x)
        y1 == TkRound(zoomed_y)
        entry_window == Item(None, "window", e, x1, y1, x1 + TruncInt(zoomed_width),
                             y1 + EntryHeight(zoomed_font_size), n)
        T3 == [T2 EXCEPT !.text_entry = n,
                         !.entries[n] = [element |-> e, text |-> el.content,
                                         mapped |-> TRUE],
                         !.canvas = Append(@, entry_window)]
    IN  focus_set(T3, n)

\* A confirm that stores the stripped input whatever it is.
finish_text_editing_as_typed(T, e) ==
    IF ~T.is_editing_text \/ T.text_entry = None
    THEN T
    ELSE
    LET new_text == strip(T.entries[T.text_entry].text)
        T1 == [T EXCEPT !.elem[e].content = new_text]
        T2 == [destroy(T1, T.text_entry) EXCEPT !.text_entry = None,
                                                !.is_editing_text = FALSE]
    IN  show_selection_border(draw_element_on_canvas(T2, e), e)

\* finish_text_editing(element)
finish_text_editing(T, e) ==
    IF ~T.is_editing_text \/ T.text_entry = None
    THEN T
    ELSE
    LET new_text == strip(T.entries[T.text_entry].text)
        T1 == [T EXCEPT !.elem[e].content =
                            IF new_text # <<>> THEN new_text ELSE DefaultText]
        T2 == [destroy(T1, T.text_entry) EXCEPT !.text_entry = None,
                                                !.is_editing_text = FALSE]
    IN  show_selection_border(draw_element_on_canvas(T2, e), e)

NeedsEditing == <<"C", "l", "i", "c", "k", " ", "t", "o", " ", "e", "d", "i", "t", " ", "t", "e", "x", "t">>

\* cancel_text_editing(element)
cancel_text_editing(T, e) ==
    IF ~T.is_editing_text \/ T.text_entry = None
    THEN T
    ELSE
    LET T1 == [destroy(T, T.text_entry) EXCEPT !.text_entry = None,
                                               !.is_editing_text = FALSE]
        T2 == IF T1.elem[e].content = NeedsEditing
              THEN [T1 EXCEPT !.elem[e].content = DefaultText] ELSE T1
    IN  show_selection_border(draw_element_on_canvas(T2, e), e)

(***************************************************************************)
(* Hit testing: canvas.find_closest(x, y) is the item nearest to the       *)
(* point, at distance 0 when the point is in the item's box, and the       *)
(* topmost (last drawn) of the nearest when several are equally near.      *)
(***************************************************************************)
Dist2(it, p) ==
    LET dx == IF p.x < it.x1 THEN it.x1 - p.x
              ELSE IF p.x > it.x2 THEN p.x - it.x2 ELSE 0
        dy == IF p.y < it.y1 THEN it.y1 - p.y
              ELSE IF p.y > it.y2 THEN p.y - it.y2 ELSE 0
    IN  dx * dx + dy * dy

Inside(it, p) == Dist2(it, p) = 0

\* The index in the display list of the item find_closest returns.
find_closest(T, p) ==
    CHOOSE i \in 1 .. Len(T.canvas) :
        /\ \A j \in 1 .. Len(T.canvas) : Dist2(T.canvas[i], p) <= Dist2(T.canvas[j], p)
        /\ \A j \in (i + 1) .. Len(T.canvas) : Dist2(T.canvas[j], p) > Dist2(T.canvas[i], p)

\* The first element of the list, from index i on, that the loop of
\* on_canvas_click matches against the clicked item; None when none does.
RECURSIVE first_match(_, _, _)
first_match(T, clicked_item, i) ==
    IF i > Len(T.signature_elements)
    THEN None
    ELSE LET e == T.signature_elements[i]
         IN  IF /\ clicked_item # None
                /\ T.elem[e].canvas_id = clicked_item
                /\ T.elem[e].page_num = T.current_page
             THEN e
             ELSE first_match(T, clicked_item, i + 1)

\* on_canvas_click(event)
on_canvas_click(T, p) ==
    LET T1 == canvas_delete_tag(T, "selection_border") IN
    IF T1.canvas = <<>>
    THEN T1   \* find_closest(...)[0] raises IndexError
    ELSE
    LET clicked_item == T1.canvas[find_closest(T1, p)].id
        element == first_match(T1, clicked_item, 1)
    IN  IF element # None
        THEN show_selection_border(
                 [T1 EXCEPT !.selected_element = element,
                            !.drag_data = p,
                            !.selected_color_var =
                                IF T1.elem[element].element_type = "text"
                                THEN T1.elem[element].text_color ELSE @],
                 element)
        ELSE [T1 EXCEPT !.selected_element = None]

\* on_double_click(event)
on_double_click(T) ==
    IF T.selected_element # None /\ T.elem[T.selected_element].element_type = "text"
    THEN start_text_editing(T, T.selected_element)
    ELSE T

\* A resize that does not clamp the new size.
on_ctrl_scroll_unclamped(T, up) ==
    IF T.selected_element = None
    THEN T
    ELSE
    LET e == T.selected_element
        scale_factor == IF up THEN 11000 ELSE 9000
        new_width == FMul(T.elem[e].width, scale_factor)
        new_height == FMul(T.elem[e].height, scale_factor)
        T1 == [T EXCEPT !.elem[e].width = new_width, !.elem[e].height = new_height]
        T2 == IF T1.elem[e].canvas_id # None
              THEN canvas_delete(T1, T1.elem[e].canvas_id) ELSE T1
        T3 == draw_element_on_canvas(T2, e)
        T4 == show_selection_border(canvas_delete_tag(T3, "selection_border"), e)
    IN  [T4 EXCEPT !.feedback_timers = @ + 1,
                   !.overflow = @ \/ T.feedback_timers >= MaxFeedback]

\* A resize whose steps are too small to get anywhere: the size is kept.
on_ctrl_scroll_in_place(T, up) ==
    IF T.selected_element = None
    THEN T
    ELSE
    LET e == T.selected_element
        T2 == IF T.elem[e].canvas_id # None
              THEN canvas_delete(T, T.elem[e].canvas_id) ELSE T
        T3 == draw_element_on_canvas(T2, e)
        T4 == show_selection_border(canvas_delete_tag(T3, "selection_border"), e)
    IN  [T4 EXCEPT !.feedback_timers = @ + 1,
                   !.overflow = @ \/ T.feedback_timers >= MaxFeedback]

\* A resize that shrinks by 1/1.1, the inverse of the enlarging factor.
on_ctrl_scroll_inverse(T, up) ==
    IF T.selected_element = None
    THEN T
    ELSE
    LET e == T.selected_element
        scale_factor == IF up THEN 11000 ELSE 9091
        new_width == Min2(F(500), Max2(F(20), FMul(T.elem[e].width, scale_factor)))
        new_height == Min2(F(300), Max2(F(10), FMul(T.elem[e].height, scale_factor)))
        T1 == [T EXCEPT !.elem[e].width = new_width, !.elem[e].height = new_height]
        T2 == IF T1.elem[e].canvas_id # None
              THEN canvas_delete(T1, T1.elem[e].canvas_id) ELSE T1
        T3 == draw_element_on_canvas(T2, e)
        T4 == show_selection_border(canvas_delete_tag(T3, "selection_border"), e)
    IN  [T4 EXCEPT !.feedback_timers = @ + 1,
                   !.overflow = @ \/ T.feedback_timers >= MaxFeedback]

\* A resize about the centre of the element: the position moves with the
\* size.
on_ctrl_scroll_centred(T, up) ==
    IF T.selected_element = None
    THEN T
    ELSE
    LET e == T.selected_element
        scale_factor == IF up THEN 11000 ELSE 9000
        new_width == Min2(F(500), Max2(F(20), FMul(T.elem[e].width, scale_factor)))
        new_height == Min2(F(300), Max2(F(10), FMul(T.elem[e].height, scale_factor)))
        T1 == [T EXCEPT !.elem[e].x = @ - (new_width - T.elem[e].width) \div 2,
                        !.elem[e].y = @ - (new_height - T.elem[e].height) \div 2,
                        !.elem[e].width = new_width, !.elem[e].height = new_height]
        T2 == IF T1.elem[e].canvas_id # None
              THEN canvas_delete(T1, T1.elem[e].canvas_id) ELSE T1
        T3 == draw_element_on_canvas(T2, e)
        T4 == show_selection_border(canvas_delete_tag(T3, "selection_border"), e)
    IN  [T4 EXCEPT !.feedback_timers = @ + 1,
                   !.overflow = @ \/ T.feedback_timers >= MaxFeedback]

\* on_ctrl_scroll(event); `up` is event.delta > 0.
on_ctrl_scroll(T, up) ==
    IF T.selected_element = None
    THEN T
    ELSE
    LET e == T.selected_element
        scale_factor == IF up THEN 11000 ELSE 9000
        new_width == Min2(F(500), Max2(F(20), FMul(T.elem[e].width, scale_factor)))
        new_height == Min2(F(300), Max2(F(10), FMul(T.elem[e].height, scale_factor)))
        T1 == [T EXCEPT !.elem[e].width = new_width, !.elem[e].height = new_height]
        T2 == IF T1.elem[e].canvas_id # None
              THEN canvas_delete(T1, T1.elem[e].canvas_id) ELSE T1
        T3 == draw_element_on_canvas(T2, e)
        T4 == show_selection_border(canvas_delete_tag(T3, "selection_border"), e)
        feedback_x == TkRound(FMul(T4.elem[e].x, T4.zoom_level)
                              + FMul(T4.elem[e].width, T4.zoom_level) + F(10))
        feedback_y == TkRound(FMul(T4.elem[e].y, T4.zoom_level))
        w == TextWidth(<<"0", "0", "0", "x", "0", "0", "0">>, 10)
        h == TextHeight(10)
        feedback == Item(None, "size_feedback", None,
                         feedback_x - w \div 2, feedback_y - h \div 2,
                         feedback_x + w \div 2, feedback_y + h \div 2, None)
    IN  [T4 EXCEPT !.canvas = Append(@, feedback),
                   !.feedback_timers = @ + 1,
                   !.overflow = @ \/ T.feedback_timers >= MaxFeedback]

\* A drag that adds the on-screen delta to the stored position as it is.
on_canvas_drag_undivided(T, p) ==
    IF T.selected_element = None
    THEN T
    ELSE
    LET e == T.selected_element
        delta_x == p.x - T.drag_data.x
        delta_y == p.y - T.drag_data.y
        T1 == [T EXCEPT !.elem[e].x = @ + F(delta_x),
                        !.elem[e].y = @ + F(delta_y)]
        T2 == canvas_move(T1, T1.elem[e].canvas_id, delta_x, delta_y)
        T3 == show_selection_border(canvas_delete_tag(T2, "selection_border"), e)
    IN  [T3 EXCEPT !.drag_data = p]

\* A drag that keeps the anchor where the button was pressed.
on_canvas_drag_anchored(T, p) ==
    IF T.selected_element = None
    THEN T
    ELSE
    LET e == T.selected_element
        delta_x == p.x - T.drag_data.x
        delta_y == p.y - T.drag_data.y
        T1 == [T EXCEPT !.elem[e].x = @ + FDiv(F(delta_x), T.zoom_level),
                        !.elem[e].y = @ + FDiv(F(delta_y), T.zoom_level)]
        T2 == canvas_move(T1, T1.elem[e].canvas_id, delta_x, delta_y)
    IN  show_selection_border(canvas_delete_tag(T2, "selection_border"), e)

\* on_canvas_drag(event)
on_canvas_drag(T, p) ==
    IF T.selected_element = None
    THEN T
    ELSE
    LET e == T.selected_element
        delta_x == p.x - T.drag_data.x
        delta_y == p.y - T.drag_data.y
        T1 == [T EXCEPT !.elem[e].x = @ + FDiv(F(delta_x), T.zoom_level),
                        !.elem[e].y = @ + FDiv(F(delta_y), T.zoom_level)]
        T2 == canvas_move(T1, T1.elem[e].canvas_id, delta_x, delta_y)
        T3 == show_selection_border(canvas_delete_tag(T2, "selection_border"), e)
    IN  [T3 EXCEPT !.drag_data = p]

(***************************************************************************)
(* The document.  A closed fitz.Document raises ValueError when its length *)
(* is taken, and `if self.pdf_doc:` takes it: a handler that tests a       *)
(* closed document ends there, with the exception.                         *)
(***************************************************************************)
\* A path fitz.open cannot read.
BadPath == 3

page_count(T) == Len(Pages(T.pdf_doc))

\* `if self.pdf_doc:` is true: a document is open.
HasDoc(T) == T.pdf_doc # None /\ ~T.doc_closed

\* `if self.pdf_doc:` raises.
DocRaises(T) == T.pdf_doc # None /\ T.doc_closed

\* A zoom in that stores the zoomed geometry in the elements.
zoom_in_rescaling(T) ==
    IF HasDoc(T)
    THEN update_page_display(
             [T EXCEPT !.zoom_level = Min2(F(3), FMul(T.zoom_level, 12000)),
                       !.elem = [e \in ElemIds |->
                                    [@[e] EXCEPT !.x = FMul(@, 12000),
                                                 !.y = FMul(@, 12000),
                                                 !.width = FMul(@, 12000),
                                                 !.height = FMul(@, 12000)]]])
    ELSE T

\* A zoom in without the upper limit.
zoom_in_unclamped(T) ==
    IF HasDoc(T)
    THEN update_page_display([T EXCEPT !.zoom_level = FMul(T.zoom_level, 12000)])
    ELSE T

\* zoom_in()
zoom_in(T) ==
    IF HasDoc(T)
    THEN update_page_display(
             [T EXCEPT !.zoom_level = Min2(F(3), FMul(T.zoom_level, 12000))])
    ELSE T

\* zoom_out()
zoom_out(T) ==
    IF HasDoc(T)
    THEN update_page_display(
             [T EXCEPT !.zoom_level = Max2(F(1) \div 2, FDiv(T.zoom_level, 12000))])
    ELSE T

\* zoom_reset()
zoom_reset(T) ==
    IF HasDoc(T)
    THEN update_page_display([T EXCEPT !.zoom_level = F(1)])
    ELSE T

\* open_pdf(), from the answer of the file dialog on: file_path is None when
\* the dialog was cancelled.
open_pdf(T, file_path) ==
    IF file_path = None
    THEN T
    ELSE IF DocRaises(T)
    THEN T   \* caught by the handler's except: reported in the status bar
    ELSE IF file_path \notin Paths
    THEN     \* fitz.open raises after the old document was closed
         [T EXCEPT !.doc_closed = T.pdf_doc # None]
    ELSE update_page_display(
             [T EXCEPT !.pdf_doc = file_path,
                       !.doc_closed = FALSE,
                       !.pdf_file_path = file_path,
                       !.current_page = 0,
                       !.signature_elements = <<>>,
                       !.selected_element = None,
                       !.zoom_level = F(1)])

\* The element add_image_signature and use_saved_signature create.
ImageElement(T) ==
    [element_type |-> "image", content |-> ImageContent, x |-> F(100), y |-> F(100),
     width |-> F(150), height |-> F(75), page_num |-> T.current_page,
     canvas_id |-> None, text_color |-> "black"]

\* The element add_text_signature creates.
TextElement(T) ==
    LET font_size == 12 IN
    [element_type |-> "text", content |-> DefaultText, x |-> F(100), y |-> F(200),
     width |-> F(200), height |-> F(font_size + 10), page_num |-> T.current_page,
     canvas_id |-> None, text_color |-> "black"]

\* signature_elements.append(element); draw_element_on_canvas(element)
append_and_draw(T, el) ==
    LET T1 == NewElem(T, el) IN
    IF T1.overflow
    THEN T1
    ELSE LET e == MinOf(FreeElems(T))
         IN  draw_element_on_canvas(
                 [T1 EXCEPT !.signature_elements = Append(@, e)], e)

\* add_image_signature(), from the answers of its dialogs on: `loaded` is
\* whether a file was chosen and Image.open read it.
add_image_signature(T, loaded) ==
    IF loaded THEN append_and_draw(T, ImageElement(T)) ELSE T

\* use_saved_signature(), with a saved signature chosen in the combobox
use_saved_signature(T) ==
    IF ~HasDoc(T) THEN T ELSE append_and_draw(T, ImageElement(T))

\* add_text_signature()
add_text_signature(T) ==
    IF ~HasDoc(T)
    THEN T
    ELSE
    LET T1 == append_and_draw(T, TextElement(T)) IN
    IF T1.overflow
    THEN T1
    ELSE LET element == T1.signature_elements[Len(T1.signature_elements)]
         IN  [show_selection_border([T1 EXCEPT !.selected_element = element], element)
                 EXCEPT !.edit_timers = @ \cup {element}]

\* change_selected_text_color()
change_selected_text_color(T) ==
    IF T.selected_element = None \/ T.elem[T.selected_element].element_type # "text"
    THEN T
    ELSE
    LET e == T.selected_element
        T1 == [T EXCEPT !.elem[e].text_color = T.selected_color_var]
        T2 == IF T1.elem[e].canvas_id # None
              THEN canvas_delete(T1, T1.elem[e].canvas_id) ELSE T1
    IN  show_selection_border(draw_element_on_canvas(T2, e), e)

\* prev_page()
prev_page(T) ==
    IF HasDoc(T) /\ T.current_page > 0
    THEN [update_page_display([T EXCEPT !.current_page = @ - 1])
             EXCEPT !.selected_element = None]
    ELSE T

\* A next page that drops from the list the elements of the page it leaves.
next_page_dropping(T) ==
    IF HasDoc(T) /\ T.current_page < page_count(T) - 1
    THEN [update_page_display(
              [T EXCEPT !.current_page = @ + 1,
                        !.signature_elements =
                            SelectSeq(@, LAMBDA e : T.elem[e].page_num # T.current_page)])
             EXCEPT !.selected_element = None]
    ELSE T

\* next_page()
next_page(T) ==
    IF HasDoc(T) /\ T.current_page < page_count(T) - 1
    THEN [update_page_display([T EXCEPT !.current_page = @ + 1])
             EXCEPT !.selected_element = None]
    ELSE T

\* SignatureElement.__eq__, generated by @dataclass: the same object, or
\* two objects equal field by field.
Equal(T, a, b) == a = b \/ T.elem[a] = T.elem[b]

\* list.remove(element): the first item equal to it is taken out.
RECURSIVE remove(_, _, _)
remove(T, list, e) ==
    IF list = <<>> THEN <<>>
    ELSE IF Equal(T, Head(list), e) THEN Tail(list)
    ELSE <<Head(list)>> \o remove(T, Tail(list), e)

\* A delete that takes the first element of the list, whichever is selected.
delete_selected_first(T) ==
    IF T.selected_element = None \/ T.signature_elements = <<>>
    THEN T
    ELSE [canvas_delete(T, T.elem[T.signature_elements[1]].canvas_id)
           EXCEPT !.signature_elements = Tail(@), !.selected_element = None]

\* delete_selected()
delete_selected(T) ==
    IF T.selected_element = None
    THEN T
    ELSE
    LET e == T.selected_element
        T1 == IF T.elem[e].canvas_id # None
              THEN canvas_delete(T, T.elem[e].canvas_id) ELSE T
    IN  IF \A i \in 1 .. Len(T1.signature_elements) :
                  ~Equal(T1, T1.signature_elements[i], e)
        THEN T1   \* list.remove raises ValueError
        ELSE [T1 EXCEPT !.signature_elements = remove(T1, @, e),
                        !.selected_element = None]

\* clear_all(), from the answer of the confirmation on
clear_all(T, yes) ==
    IF yes
    THEN update_page_display(
             [T EXCEPT !.signature_elements = <<>>, !.selected_element = None])
    ELSE T

\* on_element_select(event); index is the row selected in the listbox, from 0.
on_element_select(T, index) ==
    IF index < Len(T.signature_elements)
    THEN LET element == T.signature_elements[index + 1]
             T1 == IF T.elem[element].page_num # T.current_page
                   THEN update_page_display(
                            [T EXCEPT !.current_page = T.elem[element].page_num])
                   ELSE T
         IN  IF T.elem[element].page_num # T.current_page /\ DocRaises(T)
             THEN T1
             ELSE [T1 EXCEPT !.selected_element = element]
    ELSE T

(***************************************************************************)
(* Export.                                                                 *)
(***************************************************************************)
Alnum == {"A", "B", "O", "a", "b", "o", "1", "2"}

isalnum(c) == c \in Alnum

RECURSIVE keep_safe(_)
keep_safe(name) ==
    IF name = <<>> THEN <<>>
    ELSE IF isalnum(Head(name)) \/ Head(name) \in {" ", "-", "_"}
    THEN <<Head(name)>> \o keep_safe(Tail(name))
    ELSE keep_safe(Tail(name))

\* str.replace(' ', '_')
replace_spaces(name) == [i \in 1 .. Len(name) |-> IF name[i] = " " THEN "_" ELSE name[i]]

\* A safe name that keeps the spaces at its end.
safe_name_unstripped(name) == replace_spaces(keep_safe(name))

\* safe_name of save_pdf
safe_name(name) == replace_spaces(rstrip(keep_safe(name)))

\* [el for el in self.signature_elements if el.page_num == page_num], and
\* with images_only the elements of type image among them; from index i on.
RECURSIVE elements_where(_, _, _, _)
elements_where(T, i, page_num, images_only) ==
    IF i > Len(T.signature_elements)
    THEN <<>>
    ELSE LET e == T.signature_elements[i]
             el == T.elem[e]
         IN  (IF el.page_num = page_num /\ (images_only => el.element_type = "image")
              THEN <<e>> ELSE <<>>)
             \o elements_where(T, i + 1, page_num, images_only)

\* A placement computed from the scale of the display, zoom included.
placement_by_display_scale(T, e) ==
    LET element == T.elem[e] IN
    IF element.element_type = "image"
    THEN [op |-> "insert_image", page |-> element.page_num,
          x0 |-> FDiv(element.x, T.page_scale_factor),
          y0 |-> FDiv(element.y, T.page_scale_factor),
          x1 |-> FDiv(element.x + element.width, T.page_scale_factor),
          y1 |-> FDiv(element.y + element.height, T.page_scale_factor)]
    ELSE [op |-> "insert_text", page |-> element.page_num,
          x |-> FDiv(element.x, T.page_scale_factor),
          y |-> FDiv(element.y + element.height, T.page_scale_factor),
          text |-> element.content,
          fontsize |-> Max2(F(8), FDiv(element.height, T.page_scale_factor)),
          color |-> element.text_color]

\* A placement that scales the corner of an element but not its size.
placement_unscaled_size(T, e) ==
    LET element == T.elem[e] IN
    IF element.element_type = "image"
    THEN [op |-> "insert_image", page |-> element.page_num,
          x0 |-> FDiv(element.x, T.base_scale_factor),
          y0 |-> FDiv(element.y, T.base_scale_factor),
          x1 |-> FDiv(element.x, T.base_scale_factor) + element.width,
          y1 |-> FDiv(element.y, T.base_scale_factor) + element.height]
    ELSE [op |-> "insert_text", page |-> element.page_num,
          x |-> FDiv(element.x, T.base_scale_factor),
          y |-> FDiv(element.y, T.base_scale_factor) + element.height,
          text |-> element.content,
          fontsize |-> Max2(F(8), element.height),
          color |-> element.text_color]

\* A placement that anchors a text at the top of its box.
placement_text_at_top(T, e) ==
    LET element == T.elem[e] IN
    IF element.element_type = "image"
    THEN [op |-> "insert_image", page |-> element.page_num,
          x0 |-> FDiv(element.x, T.base_scale_factor),
          y0 |-> FDiv(element.y, T.base_scale_factor),
          x1 |-> FDiv(element.x + element.width, T.base_scale_factor),
          y1 |-> FDiv(element.y + element.height, T.base_scale_factor)]
    ELSE [op |-> "insert_text", page |-> element.page_num,
          x |-> FDiv(element.x, T.base_scale_factor),
          y |-> FDiv(element.y, T.base_scale_factor),
          text |-> element.content,
          fontsize |-> Max2(F(8), FDiv(element.height, T.base_scale_factor)),
          color |-> element.text_color]

\* What save_pdf inserts for one element: page.insert_image(rect, ...) or
\* page.insert_text(point, content, fontsize, color).
placement(T, e) ==
    LET element == T.elem[e] IN
    IF element.element_type = "image"
    THEN [op |-> "insert_image", page |-> element.page_num,
          x0 |-> FDiv(element.x, T.base_scale_factor),
          y0 |-> FDiv(element.y, T.base_scale_factor),
          x1 |-> FDiv(element.x + element.width, T.base_scale_factor),
          y1 |-> FDiv(element.y + element.height, T.base_scale_factor)]
    ELSE [op |-> "insert_text", page |-> element.page_num,
          x |-> FDiv(element.x, T.base_scale_factor),
          y |-> FDiv(element.y + element.height, T.base_scale_factor),
          text |-> element.content,
          fontsize |-> Max2(F(8), FDiv(element.height, T.base_scale_factor)),
          color |-> element.text_color]

\* The insertions of the first loop of save_pdf, for pages page_num on.
RECURSIVE placements_from(_, _)
placements_from(T, page_num) ==
    IF page_num >= Len(Pages(T.pdf_file_path))
    THEN <<>>
    ELSE LET page_elements ==
                 elements_where(T, 1, page_num, FALSE)
         IN  [i \in 1 .. Len(page_elements) |-> placement(T, page_elements[i])]
             \o placements_from(T, page_num + 1)

\* The provenance stamps of a second loop that looks at elements of either
\* type.
RECURSIVE stamps_for_any_from(_, _)
stamps_for_any_from(T, page_num) ==
    IF page_num >= Len(Pages(T.pdf_file_path))
    THEN <<>>
    ELSE LET page_elements ==
                 elements_where(T, 1, page_num, FALSE)
         IN  (IF page_elements # <<>>
              THEN <<[op |-> "insert_stamp", page |-> page_num,
                      x |-> FDiv(T.elem[page_elements[1]].x, T.base_scale_factor),
                      y |-> FDiv(T.elem[page_elements[1]].y, T.base_scale_factor),
                      name |-> T.signature_name]>>
              ELSE <<>>)
             \o stamps_for_any_from(T, page_num + 1)

\* The provenance stamps of the second loop of save_pdf, for pages page_num on.
RECURSIVE stamps_from(_, _)
stamps_from(T, page_num) ==
    IF page_num >= Len(Pages(T.pdf_file_path))
    THEN <<>>
    ELSE LET page_elements ==
                 elements_where(T, 1, page_num, TRUE)
         IN  (IF page_elements # <<>>
              THEN <<[op |-> "insert_stamp", page |-> page_num,
                      x |-> FDiv(T.elem[page_elements[1]].x, T.base_scale_factor),
                      y |-> FDiv(T.elem[page_elements[1]].y, T.base_scale_factor),
                      name |-> T.signature_name]>>
              ELSE <<>>)
             \o stamps_from(T, page_num + 1)

\* The file save_pdf writes: its name, what was inserted into the copy, and
\* whether doc_copy.save wrote all of it.
saved_document(T) ==
    [name |-> safe_name(T.signature_name),
     inserted |-> placements_from(T, 0) \o stamps_from(T, 0),
     complete |-> TRUE]

\* What can go wrong inside the try of save_pdf: fitz.open(pdf_file_path)
\* raises because the file is no longer readable ("source"), or
\* doc_copy.save(output_path) raises after it has begun to write ("write").
SaveFaults == {"none", "source", "write"}

\* An export that also drops the selection.
save_pdf_deselecting(T, fault) ==
    IF ~HasDoc(T) \/ T.signature_elements = <<>>
    THEN T
    ELSE [T EXCEPT !.output = <<saved_document(T)>>, !.selected_element = None]

\* save_pdf(); the except clause reports the fault in the status bar.
save_pdf(T, fault) ==
    IF ~HasDoc(T) \/ T.signature_elements = <<>>
    THEN T
    ELSE IF fault = "source"
    THEN T
    ELSE IF fault = "write"
    THEN [T EXCEPT !.output = <<[saved_document(T) EXCEPT !.complete = FALSE]>>]
    ELSE [T EXCEPT !.output = <<saved_document(T)>>]

\* save_signature_name(), with new_name the text of the name field
save_signature_name(T, new_name) ==
    IF strip(new_name) # <<>>
    THEN [T EXCEPT !.signature_name = strip(new_name)]
    ELSE T

(***************************************************************************)
(* The events.  One action is one event of the Tk main loop with the whole *)
(* handler bound to it.  The user's inputs are drawn from small sets: the  *)
(* pointer from Points, what is typed into an Entry from Texts.            *)
(***************************************************************************)
Pt(x, y) == [x |-> x, y |-> y]

Points == {Pt(10, 80), Pt(120, 120), Pt(110, 210), Pt(400, 400)}

Texts == {<<>>, <<" ">>, <<" ", "A">>}

Names == {<<" ">>, <<"B", "o", " ">>}

Colors == {"black", "red"}

\* getpass.getuser().upper()
UserName == <<"B", "O", "B">>

\* The state the handler left, with what no longer is referred to reclaimed.
Set(T) ==
    /\ pdf_doc' = T.pdf_doc
    /\ doc_closed' = T.doc_closed
    /\ pdf_file_path' = T.pdf_file_path
    /\ signature_elements' = T.signature_elements
    /\ elem' = T.elem
    /\ current_page' = T.current_page
    /\ selected_element' = T.selected_element
    /\ drag_data' = T.drag_data
    /\ is_editing_text' = T.is_editing_text
    /\ text_entry' = T.text_entry
    /\ page_scale_factor' = T.page_scale_factor
    /\ zoom_level' = T.zoom_level
    /\ base_scale_factor' = T.base_scale_factor
    /\ signature_name' = T.signature_name
    /\ selected_color_var' = T.selected_color_var
    /\ canvas' = T.canvas
    /\ entries' = T.entries
    /\ focus' = T.focus
    /\ focus_out' = T.focus_out
    /\ edit_timers' = T.edit_timers
    /\ feedback_timers' = T.feedback_timers
    /\ dialog' = T.dialog
    /\ pointer' = T.pointer
    /\ last_scroll' = T.last_scroll
    /\ armed' = T.armed
    /\ last_press' = T.last_press
    /\ output' = T.output

\* The events a run is made of are counted against the quotas the run
\* started with: the presses of zoom in and zoom out, the ctrl+scroll
\* events, the changes of direction between them, the pointer-motion
\* events, the elements added, and all events together.
Quotas == {"zoom", "scroll", "turns", "drag", "add", "blank", "steps"}

\* The quota of a kind of event that is not limited.
Unlimited == 0 - 1

\* A step to the state a handler computed; `costs` names the quotas the
\* event counts against, besides "steps".
Step(handled, costs) ==
    /\ \E T \in {handled} :
           /\ ~T.overflow
           /\ Len(T.canvas) <= MaxItems
           /\ \E collected \in {Collect(T)} : Set(collected)
    /\ \A k \in costs \cup {"steps"} : quota[k] # Unlimited => used[k] < quota[k]
    /\ used' = [k \in Quotas |->
                    IF k \in costs \cup {"steps"} /\ quota[k] # Unlimited
                    THEN used[k] + 1 ELSE used[k]]
    /\ quota' = quota

\* Mouse button 1 is held down over the canvas.
button_down == pointer # {}

\* The main window is active, no event is queued and no mouse button is
\* held over the panel: the user can start a gesture.
Ready == dialog = "none" /\ focus_out = None /\ ~armed

\* The Entry shown at the point, that takes the mouse events there.
WindowAt(T, p) ==
    {T.canvas[i].win : i \in {j \in 1 .. Len(T.canvas) :
                                  T.canvas[j].kind = "window" /\ Inside(T.canvas[j], p)}}

\* The keyboard focus leaves the Entry that holds it: its <FocusOut> is queued.
focus_lost(T) ==
    [T EXCEPT !.focus = None, !.focus_out = IF T.focus # None THEN T.focus ELSE @]

\* What a gesture that is not a canvas press leaves of the double click.
Gesture(T) == [T EXCEPT !.last_press = {}]

(* the canvas *)
Press(p) ==
    /\ Ready /\ ~button_down
    /\ WindowAt(S, p) = {}
    /\ Step([on_canvas_click(S, p) EXCEPT !.pointer = {p}, !.last_press = {p}], {})

DoublePress ==
    /\ Ready /\ ~button_down
    /\ \E p \in last_press : WindowAt(S, p) = {}
    /\ Step([on_double_click(S) EXCEPT !.pointer = last_press, !.last_press = {}], {})

Motion(p) ==
    /\ dialog = "none" /\ focus_out = None
    /\ button_down
    /\ Step(Gesture([on_canvas_drag(S, p) EXCEPT !.pointer = {p}]), {"drag"})

Release ==
    /\ dialog = "none" /\ focus_out = None
    /\ button_down
    /\ Step([S EXCEPT !.pointer = {}], {})

CtrlScroll(up) ==
    /\ Ready
    /\ LET dir == IF up THEN "up" ELSE "down"
       IN  Step(Gesture([on_ctrl_scroll(S, up) EXCEPT !.last_scroll = dir]),
                IF last_scroll \in {"none", dir} THEN {"scroll"} ELSE {"scroll", "turns"})

(* the Entry widgets *)
EntryClick(n) ==
    /\ Ready /\ ~button_down
    /\ entries[n].mapped /\ focus # n
    /\ Step(Gesture(focus_set(S, n)), {})

Type(text) ==
    /\ Ready
    /\ focus # None
    /\ entries[focus].text # text
    /\ Step(Gesture([S EXCEPT !.entries[focus].text = text]), {})

\* The edit that finish_text_editing would confirm now has nothing but
\* white space in its Entry.
BlankConfirm ==
    IF /\ is_editing_text
       /\ text_entry # None
       /\ strip(entries[text_entry].text) = <<>>
    THEN {"blank"} ELSE {}

Return ==
    /\ Ready
    /\ focus # None
    /\ Step(Gesture(finish_text_editing(S, entries[focus].element)), BlankConfirm)

Escape ==
    /\ Ready
    /\ focus # None
    /\ Step(Gesture(cancel_text_editing(S, entries[focus].element)), {})

FocusOut ==
    /\ focus_out # None
    /\ Step(finish_text_editing([S EXCEPT !.focus_out = None],
                                entries[focus_out].element), BlankConfirm)

(* after() callbacks *)
EditTimer(e) ==
    /\ focus_out = None
    /\ e \in edit_timers
    /\ Step(start_text_editing([S EXCEPT !.edit_timers = @ \ {e}], e), {})

FeedbackTimer ==
    /\ focus_out = None
    /\ feedback_timers > 0
    /\ Step(canvas_delete_tag([S EXCEPT !.feedback_timers = @ - 1], "size_feedback"),
            {})

(* the panel: a press on one of its widgets takes the focus, the release   *)
(* runs the widget's command                                               *)
PressWidget ==
    /\ Ready /\ ~button_down
    /\ Step(Gesture([focus_lost(S) EXCEPT !.armed = TRUE]), {})

\* The command of a button runs: on the release over the button.
Invoked == dialog = "none" /\ focus_out = None /\ armed

\* A command that also has a key binding on the root window runs: on the
\* release over its button, or on the key.
InvokedOrKey == dialog = "none" /\ focus_out = None /\ (button_down => armed)

Command(T, costs) == Step(Gesture([T EXCEPT !.armed = FALSE]), costs)

ZoomIn == InvokedOrKey /\ Command(zoom_in(S), {"zoom"})

ZoomOut == InvokedOrKey /\ Command(zoom_out(S), {"zoom"})

ZoomReset == InvokedOrKey /\ zoom_level # F(1) /\ Command(zoom_reset(S), {})

SavePdf(fault) == InvokedOrKey /\ Command(save_pdf(S, fault), {})

SaveName(new_name) ==
    /\ Invoked
    /\ strip(new_name) # signature_name
    /\ Command(save_signature_name(S, new_name), {})

PrevPage == Invoked /\ Command(prev_page(S), {})

NextPage == Invoked /\ Command(next_page(S), {})

AddText == Invoked /\ Command(add_text_signature(S), {"add"})

UseSaved == Invoked /\ Command(use_saved_signature(S), {"add"})

SelectColor(c) ==
    /\ Invoked
    /\ selected_color_var # c
    /\ Command([S EXCEPT !.selected_color_var = c], {})

ApplyColor == Invoked /\ Command(change_selected_text_color(S), {})

DeleteSelected == Invoked /\ Command(delete_selected(S), {})

\* A press on a row of the listbox takes the focus and selects the row.
ListboxSelect(index) ==
    /\ Ready /\ ~button_down
    /\ index < Len(signature_elements)
    /\ Step(Gesture(focus_lost(on_element_select(S, index))), {})

(* the dialogs *)
OpenPdf ==
    /\ InvokedOrKey
    /\ Command([focus_lost(S) EXCEPT !.dialog = "open"], {})

OpenPdfAnswer(file_path) ==
    /\ dialog = "open" /\ focus_out = None
    /\ Step(open_pdf([S EXCEPT !.dialog = "none"], file_path), {})

AddImage ==
    /\ Invoked
    /\ HasDoc(S)
    /\ Command([focus_lost(S) EXCEPT !.dialog = "image"], {})

AddImageAnswer(loaded) ==
    /\ dialog = "image" /\ focus_out = None
    /\ Step(add_image_signature([S EXCEPT !.dialog = "none"], loaded),
            IF loaded THEN {"add"} ELSE {})

ClearAll ==
    /\ Invoked
    /\ Command([focus_lost(S) EXCEPT !.dialog = "clear"], {})

ClearAllAnswer(yes) ==
    /\ dialog = "clear" /\ focus_out = None
    /\ Step(clear_all([S EXCEPT !.dialog = "none"], yes), {})

(***************************************************************************)
(* The application after PDFSignatureApp.__init__.                         *)
(***************************************************************************)
\* The text setup_ui puts on the canvas.
Welcome == Item(None, "welcome", None, 200, 230, 500, 370, None)

Constructed ==
    /\ pdf_doc = None
    /\ doc_closed = FALSE
    /\ pdf_file_path = None
    /\ signature_elements = <<>>
    /\ elem = [e \in ElemIds |-> NoElem]
    /\ current_page = 0
    /\ selected_element = None
    /\ drag_data = Pt(0, 0)
    /\ is_editing_text = FALSE
    /\ text_entry = None
    /\ page_scale_factor = F(1)
    /\ zoom_level = F(1)
    /\ base_scale_factor = 0
    /\ signature_name = UserName
    /\ selected_color_var = "black"
    /\ canvas = <<Welcome>>
    /\ entries = [n \in EntryIds |-> NoEntry]
    /\ focus = None
    /\ focus_out = None
    /\ edit_timers = {}
    /\ feedback_timers = 0
    /\ dialog = "none"
    /\ pointer = {}
    /\ last_scroll = "none"
    /\ armed = FALSE
    /\ last_press = {}
    /\ output = <<>>
    /\ used = [k \in Quotas |-> 0]

Init ==
    /\ Constructed
    /\ quota = [zoom |-> MaxZoom, scroll |-> MaxScroll, turns |-> Unlimited,
                drag |-> MaxDrag, add |-> Unlimited, blank |-> Unlimited,
                steps |-> MaxSteps]

Next ==
    \/ \E p \in Points : Press(p)
    \/ DoublePress
    \/ \E p \in Points : Motion(p)
    \/ Release
    \/ \E up \in BOOLEAN : CtrlScroll(up)
    \/ \E n \in EntryIds : EntryClick(n)
    \/ \E text \in Texts : Type(text)
    \/ Return
    \/ Escape
    \/ FocusOut
    \/ \E e \in ElemIds : EditTimer(e)
    \/ FeedbackTimer
    \/ PressWidget
    \/ ZoomIn
    \/ ZoomOut
    \/ ZoomReset
    \/ \E fault \in SaveFaults : SavePdf(fault)
    \/ \E new_name \in Names : SaveName(new_name)
    \/ PrevPage
    \/ NextPage
    \/ AddText
    \/ UseSaved
    \/ \E c \in Colors : SelectColor(c)
    \/ ApplyColor
    \/ DeleteSelected
    \/ \E index \in 0 .. (MaxElems - 1) : ListboxSelect(index)
    \/ OpenPdf
    \/ \E file_path \in {PathA, BadPath, None} : OpenPdfAnswer(file_path)
    \/ AddImage
    \/ \E loaded \in BOOLEAN : AddImageAnswer(loaded)
    \/ ClearAll
    \/ \E yes \in BOOLEAN : ClearAllAnswer(yes)

Spec == Init /\ [][Next]_vars

(***************************************************************************)
(* Viewing and moving: a document is opened, elements are added and        *)
(* dragged, and the view is zoomed over its whole range and turned to the  *)
(* other page, in runs of any length.                                      *)
(***************************************************************************)
\* Where the pointer is pressed and moved to.
ViewPoints == {Pt(120, 120), Pt(400, 400)}

InitView ==
    /\ Constructed
    /\ quota = [zoom |-> Unlimited, scroll |-> 0, turns |-> Unlimited,
                drag |-> MaxViewDrag, add |-> MaxViewElems, blank |-> Unlimited,
                steps |-> Unlimited]

NextView ==
    \/ OpenPdf
    \/ \E file_path \in {PathA} : OpenPdfAnswer(file_path)
    \/ PressWidget
    \/ UseSaved
    \/ AddText
    \/ \E e \in ElemIds : EditTimer(e)
    \/ FocusOut
    \/ Return
    \/ \E p \in ViewPoints : Press(p)
    \/ \E p \in ViewPoints : Motion(p)
    \/ Release
    \/ ZoomIn
    \/ ZoomOut
    \/ ZoomReset
    \/ PrevPage
    \/ NextPage

SpecView == InitView /\ [][NextView]_vars

(***************************************************************************)
(* Zoom and the stored geometry.                                           *)
(***************************************************************************)
\* The stored base-display geometry of an element.
Geometry(el) == <<el.x, el.y, el.width, el.height>>

\* The item on the canvas an element of the list holds in canvas_id.
ItemOf(e) ==
    {i \in 1 .. Len(canvas) : elem[e].canvas_id # None /\ canvas[i].id = elem[e].canvas_id}

\* A step of one of the three zoom operations.
ZoomStep == ZoomIn \/ ZoomOut \/ ZoomReset

\* C1: a zoom in, zoom out or zoom reset leaves the list of elements as it
\* is and the stored x, y, width and height of every element of it
\* unchanged, so no sequence of them changes any; the zoom shows only in
\* where the elements are drawn.
ZoomKeepsStoredGeometry ==
    [][ZoomStep =>
          /\ signature_elements' = signature_elements
          /\ \A e \in ElemIds :
                 InList(S, e) => Geometry(elem'[e]) = Geometry(elem[e])]_vars

\* An element that was dragged is drawn, at a zoom other than 1.0, at
\* another place than its stored position.
DraggedElementDrawnZoomed ==
    /\ zoom_level # F(1)
    /\ \E e \in ElemIds :
           /\ InList(S, e)
           /\ elem[e].x # F(100)
           /\ \E i \in ItemOf(e) : canvas[i].x1 # TkRound(elem[e].x)

\* C2: a zoom in, zoom out or zoom reset leaves what save_pdf would write
\* as it is: the same elements are exported to the same document-space
\* rectangles and text anchor points at every zoom level.
ZoomKeepsExport ==
    [][ZoomStep => saved_document(S)' = saved_document(S)]_vars

\* At zoom 2.5 there is something to export.
ExportAtZoom25 ==
    /\ zoom_level = (5 * Unit) \div 2
    /\ saved_document(S).inserted # <<>>

\* C3: a pointer motion that drags the selected element from pointer
\* position q to p at zoom z adds (p.x - q.x) / z and (p.y - q.y) / z to
\* its stored x and y, and changes no other field of it and no other
\* element.
DragMovesByPointerDelta ==
    [][(selected_element # None /\ \E p \in Points : Motion(p)) =>
          LET e == selected_element
              q == CHOOSE q \in pointer : TRUE
              p == CHOOSE p \in pointer' : TRUE
          IN  /\ elem'[e].x - elem[e].x = FDiv(F(p.x - q.x), zoom_level)
              /\ elem'[e].y - elem[e].y = FDiv(F(p.y - q.y), zoom_level)
              /\ elem'[e] = [elem[e] EXCEPT !.x = elem'[e].x, !.y = elem'[e].y]
              /\ \A o \in ElemIds \ {e} : elem'[o] = elem[o]]_vars

\* The selected element has been dragged at a zoom other than 1.0, and the
\* mouse button is still held.
DraggedAtZoom ==
    /\ zoom_level # F(1)
    /\ button_down
    /\ selected_element # None
    /\ elem[selected_element].x # F(100)

(***************************************************************************)
(* Resizing: a document is opened, an element is added and selected, and   *)
(* then the wheel is turned with Ctrl held, up and down.                   *)
(***************************************************************************)
\* Where the pointer is pressed: on the image, and on the text.
ResizePoints == {Pt(120, 120), Pt(110, 210)}

InitResize ==
    /\ Constructed
    /\ quota = [zoom |-> 0, scroll |-> MaxResize, turns |-> MaxTurns,
                drag |-> 0, add |-> MaxResizeElems, blank |-> Unlimited,
                steps |-> Unlimited]

\* What the user does before the wheel is turned.
Arrange ==
    \/ OpenPdf
    \/ \E file_path \in {PathB} : OpenPdfAnswer(file_path)
    \/ PressWidget
    \/ UseSaved
    \/ AddText
    \/ Return
    \/ \E p \in ResizePoints : Press(p)
    \/ Release

\* What happens without the user.
Internal ==
    \/ \E e \in ElemIds : EditTimer(e)
    \/ FocusOut
    \/ FeedbackTimer

NextResize ==
    \/ (last_scroll = "none" /\ Arrange)
    \/ Internal
    \/ \E up \in BOOLEAN : CtrlScroll(up)

SpecResize == InitResize /\ [][NextResize]_vars

\* C4: every element of the list has a width of 20 to 500 and a height of
\* 10 to 300, as created and after any ctrl+scroll events.
SizesInRange ==
    \A e \in ElemIds :
        InList(S, e) =>
            /\ F(20) <= elem[e].width /\ elem[e].width <= F(500)
            /\ F(10) <= elem[e].height /\ elem[e].height <= F(300)

\* An element has been enlarged up to both limits, by events that would
\* have taken it beyond.
EnlargedToLimits ==
    /\ last_scroll = "up"
    /\ \E e \in ElemIds :
           /\ InList(S, e)
           /\ elem[e].width = F(500) /\ elem[e].height = F(300)

(***************************************************************************)
(* Resizing one way: once the wheel has been turned the user only goes on  *)
(* turning it, the same way, and does so again and again.                  *)
(***************************************************************************)
InitRepeat ==
    /\ Constructed
    /\ quota = [zoom |-> 0, scroll |-> Unlimited, turns |-> 0,
                drag |-> 0, add |-> MaxResizeElems, blank |-> Unlimited,
                steps |-> Unlimited]

NextRepeat ==
    \/ (last_scroll = "none" /\ Arrange)
    \/ Internal
    \/ \E up \in BOOLEAN : CtrlScroll(up)

\* The callbacks that are due are run.
SpecRepeat ==
    /\ InitRepeat
    /\ [][NextRepeat]_vars
    /\ WF_vars(FeedbackTimer)

\* The selected element is at the largest, at the smallest size.
AtLargest ==
    /\ selected_element # None
    /\ elem[selected_element].width = F(500)
    /\ elem[selected_element].height = F(300)

AtSmallest ==
    /\ selected_element # None
    /\ elem[selected_element].width = F(20)
    /\ elem[selected_element].height = F(10)

\* C5: when the selected element is enlarged again and again it gets to
\* width 500 and height 300 and stays there; when it is shrunk again and
\* again it gets to width 20 and height 10 and stays there.
RepeatedResizeSettles ==
    /\ []<><<selected_element # None /\ CtrlScroll(TRUE)>>_vars => <>[]AtLargest
    /\ []<><<selected_element # None /\ CtrlScroll(FALSE)>>_vars => <>[]AtSmallest

\* A text element has been shrunk down to both limits.
ShrunkToLimits ==
    /\ last_scroll = "down"
    /\ AtSmallest
    /\ elem[selected_element].element_type = "text"

(***************************************************************************)
(* Selection and inline editing.                                           *)
(***************************************************************************)
\* The point is in the displayed bounds of element e: in its stored
\* rectangle as zoomed, or in the item drawn for it.
DisplayedAt(e, p) ==
    /\ InList(S, e)
    /\ elem[e].page_num = current_page
    /\ \/ /\ FMul(elem[e].x, zoom_level) <= F(p.x)
          /\ F(p.x) <= FMul(elem[e].x + elem[e].width, zoom_level)
          /\ FMul(elem[e].y, zoom_level) <= F(p.y)
          /\ F(p.y) <= FMul(elem[e].y + elem[e].height, zoom_level)
       \/ \E i \in ItemOf(e) : Inside(canvas[i], p)

\* C6: at most one element is selected, and a click at a point that is in
\* the displayed bounds of no element leaves no element selected.
ClickOutsideSelectsNone ==
    [][\A p \in Points :
          (Press(p) /\ \A e \in ElemIds : ~DisplayedAt(e, p)) =>
              selected_element' = None]_vars

\* The Entry widgets shown on the canvas.
EditSurfaces == {n \in EntryIds : entries[n] # NoEntry /\ entries[n].mapped}

\* C7: while an inline text edit is in progress the element being edited
\* is the selected element.
EditedIsSelected ==
    is_editing_text =>
        /\ text_entry # None
        /\ selected_element # None
        /\ entries[text_entry].element = selected_element

\* C8: at most one inline text edit is open at any time: there are never
\* two edit surfaces, whichever way the edits were started.
AtMostOneEditSurface == Cardinality(EditSurfaces) <= 1

\* C9: a previous-page or next-page command that changes the current page
\* leaves no element selected and no inline edit in progress.
NavigationLeadsToIdle ==
    [][((PrevPage \/ NextPage) /\ current_page' # current_page) =>
          (selected_element' = None /\ ~is_editing_text')]_vars

\* C10: after a document has been opened the list of elements is empty, no
\* element is selected, no inline edit is in progress, the current page is
\* 0 and the zoom is 1.0.
OpenLeadsToFreshView ==
    [][(\E file_path \in Paths : OpenPdfAnswer(file_path) /\ ~DocRaises(S)) =>
          /\ signature_elements' = <<>>
          /\ selected_element' = None
          /\ ~is_editing_text'
          /\ current_page' = 0
          /\ zoom_level' = F(1)]_vars

(***************************************************************************)
(* Opening, deleting and confirming an edit.                               *)
(***************************************************************************)
\* C11: an attempt to open a file that cannot be read leaves the session as
\* it was: the document that was open is still open, and the elements, the
\* current page, the zoom and the selection are unchanged.
FailedOpenKeepsSession ==
    [][OpenPdfAnswer(BadPath) =>
          /\ pdf_doc' = pdf_doc
          /\ doc_closed' = doc_closed
          /\ signature_elements' = signature_elements
          /\ elem' = elem
          /\ current_page' = current_page
          /\ zoom_level' = zoom_level
          /\ selected_element' = selected_element]_vars

MaxDeleteElems == 2

DeletePoints == {Pt(120, 120), Pt(110, 210), Pt(400, 400)}

\* A session of adding, selecting and deleting elements in one document.
InitDelete ==
    /\ Constructed
    /\ quota = [zoom |-> 0, scroll |-> 0, turns |-> Unlimited, drag |-> 0,
                add |-> MaxDeleteElems, blank |-> Unlimited, steps |-> Unlimited]

NextDelete ==
    \/ (pdf_doc = None /\ OpenPdf)
    \/ \E file_path \in {PathA} : OpenPdfAnswer(file_path)
    \/ PressWidget
    \/ AddText
    \/ UseSaved
    \/ \E e \in ElemIds : EditTimer(e)
    \/ FocusOut
    \/ \E p \in DeletePoints : Press(p)
    \/ Release
    \/ DeleteSelected
    \/ \E index \in 0 .. (MaxElems - 1) : ListboxSelect(index)
    \/ NextPage
    \/ PrevPage

SpecDelete == InitDelete /\ [][NextDelete]_vars

\* C12: deleting the selected element takes exactly that element out of the
\* list, keeps every other element and the order of the list, and leaves
\* no element selected.
DeleteRemovesSelected ==
    [][(DeleteSelected /\ selected_element # None) =>
          /\ signature_elements' =
                 SelectSeq(signature_elements, LAMBDA x : x # selected_element)
          /\ Len(signature_elements') = Len(signature_elements) - 1
          /\ \A x \in ElemIds \ {selected_element} : elem'[x] = elem[x]
          /\ selected_element' = None]_vars

\* The first of two elements was deleted and the second is kept.
DeletedFirstKeptSecond ==
    /\ signature_elements = <<2>>
    /\ used["add"] = MaxDeleteElems
    /\ selected_element = None

MaxEditElems == 1
MaxBlank == 2

EditPoints == {Pt(110, 210), Pt(400, 400)}

\* A session of editing the text of an element.
InitEdit ==
    /\ Constructed
    /\ quota = [zoom |-> 0, scroll |-> 0, turns |-> Unlimited, drag |-> 0,
                add |-> MaxEditElems, blank |-> MaxBlank, steps |-> Unlimited]

NextEdit ==
    \/ (pdf_doc = None /\ OpenPdf)
    \/ \E file_path \in {PathA} : OpenPdfAnswer(file_path)
    \/ PressWidget
    \/ AddText
    \/ \E e \in ElemIds : EditTimer(e)
    \/ FocusOut
    \/ \E text \in Texts : Type(text)
    \/ Return
    \/ Escape
    \/ \E p \in EditPoints : Press(p)
    \/ Release
    \/ DoublePress

SpecEdit == InitEdit /\ [][NextEdit]_vars

\* C13: the content of every text element is a non-empty string, and a
\* confirmed edit whose input is empty or white space only sets the content
\* to the default text.
TextContentNeverEmpty ==
    /\ [](\A e \in ElemIds : elem[e].element_type = "text" => elem[e].content # <<>>)
    /\ [][\A e \in ElemIds :
              (/\ Return
               /\ entries[focus].element = e
               /\ BlankConfirm # {}
               /\ InList(S, e)') => elem'[e].content = DefaultText]_vars
    /\ [][\A e \in ElemIds :
              (/\ FocusOut
               /\ entries[focus_out].element = e
               /\ BlankConfirm # {}
               /\ InList(S, e)') => elem'[e].content = DefaultText]_vars

\* An edit was confirmed with nothing but white space in the Entry, and the
\* text in the list reads the default text.
BlankInputReset ==
    /\ used["blank"] > 0
    /\ ~is_editing_text
    /\ \E i \in 1 .. Len(signature_elements) :
           /\ elem[signature_elements[i]].element_type = "text"
           /\ elem[signature_elements[i]].content = DefaultText

(***************************************************************************)
(* Export.                                                                 *)
(***************************************************************************)
MaxExportElems == 2
MaxExportZoom == 1

\* A session of placing elements on the pages of one document and exporting.
InitExport ==
    /\ Constructed
    /\ quota = [zoom |-> MaxExportZoom, scroll |-> 0, turns |-> Unlimited,
                drag |-> 0, add |-> MaxExportElems, blank |-> Unlimited,
                steps |-> Unlimited]

NextExport ==
    \/ (pdf_doc = None /\ OpenPdf)
    \/ \E file_path \in {PathA} : OpenPdfAnswer(file_path)
    \/ PressWidget
    \/ AddText
    \/ UseSaved
    \/ \E e \in ElemIds : EditTimer(e)
    \/ FocusOut
    \/ ZoomIn
    \/ NextPage
    \/ PrevPage
    \/ \E fault \in SaveFaults : SavePdf(fault)

SpecExport == InitExport /\ [][NextExport]_vars

\* save_pdf gets past its two guards and into its try.
ExportAttempt(fault) ==
    /\ SavePdf(fault)
    /\ HasDoc(S)
    /\ signature_elements # <<>>

\* The image elements of the list on a page.
ImagesOn(page_num) ==
    {e \in ElemIds : /\ InList(S, e)
                     /\ elem[e].page_num = page_num
                     /\ elem[e].element_type = "image"}

\* The provenance stamps a written file has on a page.
StampsOn(doc, page_num) ==
    {i \in 1 .. Len(doc.inserted) : /\ doc.inserted[i].op = "insert_stamp"
                                    /\ doc.inserted[i].page = page_num}

\* C14: an export puts the provenance stamp exactly once on every page that
\* has an image element, at the top left corner of an image of that page
\* as the file places it, and on no page that has only text elements or no
\* element.
StampOncePerImagePage ==
    [][ExportAttempt("none") =>
          \A doc \in {output'[1]} :
              \A page_num \in 0 .. (Len(Pages(pdf_file_path)) - 1) :
                  /\ Cardinality(StampsOn(doc, page_num)) =
                         IF ImagesOn(page_num) # {} THEN 1 ELSE 0
                  /\ \A i \in StampsOn(doc, page_num) :
                         \E j \in 1 .. Len(doc.inserted) :
                             /\ doc.inserted[j].op = "insert_image"
                             /\ doc.inserted[j].page = page_num
                             /\ doc.inserted[j].x0 = doc.inserted[i].x
                             /\ doc.inserted[j].y0 = doc.inserted[i].y]_vars

\* A file was written with an image and its stamp on one page and a text
\* and no stamp on the other.
StampedImagePageOnly ==
    /\ output # <<>>
    /\ output[1].complete
    /\ \E page_num \in {0, 1} :
           /\ StampsOn(output[1], page_num) # {}
           /\ StampsOn(output[1], 1 - page_num) = {}
           /\ \E i \in 1 .. Len(output[1].inserted) :
                  /\ output[1].inserted[i].op = "insert_text"
                  /\ output[1].inserted[i].page = 1 - page_num

\* C15: an export is atomic: after an attempt the output path holds the
\* complete file with every element placed, or, when the attempt failed,
\* no new and no partial file.
ExportIsAtomic ==
    [][\A fault \in SaveFaults :
          ExportAttempt(fault) =>
              (output' = <<saved_document(S)>> \/ output' = output)]_vars

\* C16: an export attempt, successful or not, leaves the elements, their
\* order, geometry and content, the selection, the current page and the
\* zoom as they were.
ExportKeepsModel ==
    [][\A fault \in SaveFaults :
          SavePdf(fault) =>
              /\ signature_elements' = signature_elements
              /\ elem' = elem
              /\ selected_element' = selected_element
              /\ current_page' = current_page
              /\ zoom_level' = zoom_level]_vars

\* An export failed while writing, with two elements in the list, one of
\* them selected, on a zoomed page.
FailedExportWithSelection ==
    /\ output # <<>>
    /\ ~output[1].complete
    /\ Len(signature_elements) = 2
    /\ selected_element # None
    /\ zoom_level # F(1)

\* Two coordinates differ by at most 0.02.
Near(a, b) == (a - b) * 100 <= 2 * Unit /\ (b - a) * 100 <= 2 * Unit

\* An image element with the geometry add_image_signature gives it, on a
\* displayed page 612pt wide.
DefaultImageOnLetter(e) ==
    /\ InList(S, e)
    /\ elem[e].element_type = "image"
    /\ elem[e].x = F(100) /\ elem[e].y = F(100)
    /\ elem[e].width = F(150) /\ elem[e].height = F(75)
    /\ Pages(pdf_doc)[current_page + 1].width = 612

\* The rectangle of an insert_image of a written file.
RectNear(ins, x0, y0, x1, y1) ==
    /\ ins.op = "insert_image"
    /\ Near(ins.x0, x0) /\ Near(ins.y0, y0)
    /\ Near(ins.x1, x1) /\ Near(ins.y1, y1)

\* C18, as the code computes it: with a page 612pt wide on the canvas of
\* 700px, an image element stored at x=100, y=100, width=150, height=75 is
\* exported to the rectangle (87.43, 87.43, 218.57, 153.00), to within 0.02.
DefaultImageRect ==
    [][\A e \in ElemIds :
          (ExportAttempt("none") /\ DefaultImageOnLetter(e)) =>
              \E i \in 1 .. Len(output'[1].inserted) :
                  /\ output'[1].inserted[i].page = elem[e].page_num
                  /\ RectNear(output'[1].inserted[i],
                              874300, 874300, 2185700, 1530000)]_vars

\* C18, as stated: the rectangle is (87.42, 87.42, 218.56, 152.56) up to
\* rounding.
DefaultImageRectAsStated ==
    [][\A e \in ElemIds :
          (ExportAttempt("none") /\ DefaultImageOnLetter(e)) =>
              \E i \in 1 .. Len(output'[1].inserted) :
                  /\ output'[1].inserted[i].page = elem[e].page_num
                  /\ RectNear(output'[1].inserted[i],
                              874200, 874200, 2185600, 1525600)]_vars

\* A file was written with an image at the default place of a 612pt page.
DefaultImageExported ==
    /\ output # <<>>
    /\ output[1].complete
    /\ \E i \in 1 .. Len(output[1].inserted) :
           RectNear(output[1].inserted[i], 874300, 874300, 2185700, 1530000)

MaxNameElems == 1

ExportNames == {<<"B", "o", " ", "!">>, <<"a", " ", "b", "/", "_", "-", "1">>}

\* A session of naming the signer and exporting.
InitName ==
    /\ Constructed
    /\ quota = [zoom |-> 0, scroll |-> 0, turns |-> Unlimited, drag |-> 0,
                add |-> MaxNameElems, blank |-> Unlimited, steps |-> Unlimited]

NextName ==
    \/ (pdf_doc = None /\ OpenPdf)
    \/ \E file_path \in {PathA} : OpenPdfAnswer(file_path)
    \/ PressWidget
    \/ AddText
    \/ \E e \in ElemIds : EditTimer(e)
    \/ FocusOut
    \/ \E new_name \in ExportNames : SaveName(new_name)
    \/ \E fault \in SaveFaults : SavePdf(fault)

SpecName == InitName /\ [][NextName]_vars

\* The characters of a name that the output file name keeps.
Kept(name) ==
    SelectSeq(name, LAMBDA c : isalnum(c) \/ c \in {" ", "-", "_"})

\* The kept characters without the spaces at their end.
KeptToLastNonSpace(name) ==
    LET kept == Kept(name)
        last == {i \in 1 .. Len(kept) : kept[i] # " "}
    IN  SubSeq(kept, 1, IF last = {} THEN 0 ELSE CHOOSE i \in last : \A j \in last : j <= i)

Underscored(name) == [i \in 1 .. Len(name) |-> IF name[i] = " " THEN "_" ELSE name[i]]

\* C20, as the code computes it: the name in the output file name is the
\* signer's name with every character other than alphanumerics, spaces,
\* hyphens and underscores deleted, the spaces then left at the end
\* removed, and every remaining space replaced by an underscore; it holds
\* only alphanumerics, hyphens and underscores.
SafeNameDropsTrailingSpaces ==
    [][\A fault \in {"none", "write"} :
          ExportAttempt(fault) =>
              /\ output'[1].name = Underscored(KeptToLastNonSpace(signature_name))
              /\ \A i \in 1 .. Len(output'[1].name) :
                     isalnum(output'[1].name[i]) \/ output'[1].name[i] \in {"-", "_"}]_vars

\* C20, as stated: every kept space, the trailing ones included, is
\* replaced by an underscore.
SafeNameKeepsEverySpace ==
    [][\A fault \in {"none", "write"} :
          ExportAttempt(fault) =>
              /\ output'[1].name = Underscored(Kept(signature_name))
              /\ \A i \in 1 .. Len(output'[1].name) :
                     isalnum(output'[1].name[i]) \/ output'[1].name[i] \in {"-", "_"}]_vars

\* A file was written for the signer "Bo !" under the name "Bo".
TrailingSpaceDropped ==
    /\ output # <<>>
    /\ signature_name = <<"B", "o", " ", "!">>
    /\ output[1].name = <<"B", "o">>

(***************************************************************************)
(* Rendering of text and the zoom.                                         *)
(***************************************************************************)
\* C17: the font size a text element is drawn with is max(8, height - 2)
\* scaled by the zoom, to the whole number: 20 for the default height 22 at
\* zoom 1.0, and 10 at zoom 0.5.
RenderedFontSize ==
    \A e \in ElemIds :
        (/\ InList(S, e)
         /\ elem[e].element_type = "text"
         /\ elem[e].page_num = current_page
         /\ ItemOf(e) # {}) =>
            \A scaled \in {FMul(Max2(F(8), elem[e].height - F(2)), zoom_level)} :
                /\ text_font_size(S, e) * Unit - scaled < Unit
                /\ scaled - text_font_size(S, e) * Unit < Unit

\* A session of opening documents, turning pages and zooming.
InitZoom ==
    /\ Constructed
    /\ quota = [zoom |-> Unlimited, scroll |-> 0, turns |-> Unlimited, drag |-> 0,
                add |-> 0, blank |-> Unlimited, steps |-> Unlimited]

NextZoom ==
    \/ OpenPdf
    \/ \E file_path \in {PathA, BadPath, None} : OpenPdfAnswer(file_path)
    \/ PressWidget
    \/ ZoomIn
    \/ ZoomOut
    \/ ZoomReset
    \/ NextPage
    \/ PrevPage

SpecZoom == InitZoom /\ [][NextZoom]_vars

\* What a zoom operation leaves alone when it does nothing.
ViewUnchanged ==
    /\ zoom_level' = zoom_level
    /\ page_scale_factor' = page_scale_factor
    /\ canvas' = canvas
    /\ current_page' = current_page

\* C19: the zoom is always in [0.5, 3.0]; zoom in multiplies it by 1.2 up
\* to 3.0, zoom out divides it by 1.2 down to 0.5, zoom reset makes it 1.0,
\* and none of the three does anything while no document is open.
ZoomStaysInRange ==
    /\ [](F(1) \div 2 <= zoom_level /\ zoom_level <= F(3))
    /\ [][ZoomIn => IF HasDoc(S)
                    THEN zoom_level' = Min2(F(3), FMul(zoom_level, 12 * (Unit \div 10)))
                    ELSE ViewUnchanged]_vars
    /\ [][ZoomOut => IF HasDoc(S)
                     THEN zoom_level' = Max2(F(1) \div 2, FDiv(zoom_level, 12 * (Unit \div 10)))
                     ELSE ViewUnchanged]_vars
    /\ [][ZoomReset => IF HasDoc(S) THEN zoom_level' = F(1) ELSE ViewUnchanged]_vars

\* Zooming in has brought the zoom to its upper limit.
ZoomedToUpperLimit == HasDoc(S) /\ zoom_level = F(3)

(***************************************************************************)
(* What is drawn on the canvas.                                            *)
(***************************************************************************)
\* C21: every element drawn on the canvas is in the list and on the
\* current page: elements of other pages and deleted elements are not
\* drawn.
DrawnAreListedOnPage ==
    \A i \in 1 .. Len(canvas) :
        canvas[i].kind = "signature" =>
            /\ InList(S, canvas[i].of)
            /\ elem[canvas[i].of].page_num = current_page

(***************************************************************************)
(* Stacking: two elements are placed, saved signatures on the same spot;   *)
(* they are selected by a click or from the list, resized with the wheel   *)
(* and dragged.                                                            *)
(***************************************************************************)
MaxStackElems == 2
MaxStackScroll == 2
MaxStackDrag == 1

\* Where the pointer is pressed and moved to: on both signatures, and away.
StackPoints == {Pt(120, 120), Pt(400, 400)}

InitStack ==
    /\ Constructed
    /\ quota = [zoom |-> 0, scroll |-> MaxStackScroll, turns |-> Unlimited,
                drag |-> MaxStackDrag, add |-> MaxStackElems, blank |-> Unlimited,
                steps |-> Unlimited]

NextStack ==
    \/ (pdf_doc = None /\ OpenPdf)
    \/ \E file_path \in {PathA} : OpenPdfAnswer(file_path)
    \/ PressWidget
    \/ UseSaved
    \/ AddText
    \/ \E e \in ElemIds : EditTimer(e)
    \/ FocusOut
    \/ \E index \in 0 .. (MaxStackElems - 1) : ListboxSelect(index)
    \/ \E up \in BOOLEAN : CtrlScroll(up)
    \/ FeedbackTimer
    \/ \E p \in StackPoints : Press(p)
    \/ \E p \in StackPoints : Motion(p)
    \/ Release

SpecStack == InitStack /\ [][NextStack]_vars

\* The places in the list of the elements displayed at the point.
ListedAt(p) ==
    {i \in 1 .. Len(signature_elements) : DisplayedAt(signature_elements[i], p)}

\* The element inserted last of those displayed at the point.
LastInsertedAt(p) ==
    signature_elements[CHOOSE i \in ListedAt(p) : \A j \in ListedAt(p) : j <= i]

\* C22: a click at a point in the displayed bounds of several elements of
\* the current page selects the one of them inserted last, whatever
\* redraws came before: the stacking order is the insertion order.
ClickSelectsLastInserted ==
    [][\A p \in StackPoints :
          (Press(p) /\ Cardinality(ListedAt(p)) >= 2) =>
              selected_element' = LastInsertedAt(p)]_vars

(***************************************************************************)
(* The resize step.                                                        *)
(***************************************************************************)
\* A size brought into the limits lo .. hi.
Clamped(v, lo, hi) == Min2(hi, Max2(lo, v))

\* The size is within the limits before the clamp: the step is not clamped.
Unclamped(w, h) ==
    /\ F(20) <= w /\ w <= F(500)
    /\ F(10) <= h /\ h <= F(300)

\* A resize step of the selected element e by the factors `larger` and
\* `smaller`: its size times the factor, clamped; and, when neither this
\* step nor the opposite step after it is clamped, the size after both is
\* `both` times the size before.
ResizeStep(e, up, larger, smaller, both) ==
    LET w == elem[e].width
        h == elem[e].height
        f == IF up THEN larger ELSE smaller
        g == IF up THEN smaller ELSE larger
    IN  /\ elem'[e].width = Clamped(FMul(w, f), F(20), F(500))
        /\ elem'[e].height = Clamped(FMul(h, f), F(10), F(300))
        /\ (/\ Unclamped(FMul(w, f), FMul(h, f))
            /\ Unclamped(FMul(FMul(w, f), g), FMul(FMul(h, f), g)))
           => \E T \in {on_ctrl_scroll(S', ~up)} :
                  /\ Near(T.elem[e].width, FMul(w, both))
                  /\ Near(T.elem[e].height, FMul(h, both))

\* C23: a resize step multiplies the size of the selected element by 1.1
\* when enlarging and by 0.9 when shrinking, then clamps it; an enlarge and
\* a shrink one after the other, neither clamped, leave 0.99 of the width
\* and of the height.
ResizeStepByTenth ==
    [][\A up \in BOOLEAN : \A e \in ElemIds :
          (CtrlScroll(up) /\ selected_element = e) =>
              ResizeStep(e, up, 11000, 9000, 9900)]_vars

\* C23 as stated: the shrinking factor is 0.909.. = 1/1.1, and an enlarge
\* and a shrink one after the other, neither clamped, restore the width
\* and the height.
ResizeStepInverse ==
    [][\A up \in BOOLEAN : \A e \in ElemIds :
          (CtrlScroll(up) /\ selected_element = e) =>
              ResizeStep(e, up, 11000, 9091, F(1))]_vars

\* The saved signature, 150 by 75, has been enlarged and then shrunk, and
\* is 148.5 by 74.25.
EnlargedThenShrunk ==
    /\ last_scroll = "down"
    /\ used.turns = 1
    /\ selected_element # None
    /\ elem[selected_element].width = FMul(F(150), 9900)
    /\ elem[selected_element].height = FMul(F(75), 9900)

(***************************************************************************)
(* What a resize leaves alone.                                             *)
(***************************************************************************)
\* What the program keeps of the elements and the view, but for the items
\* on the canvas.
ModelState ==
    << signature_elements, elem, selected_element, current_page, zoom_level,
       is_editing_text, text_entry, entries >>

\* C24: a ctrl+scroll changes only the width and the height of the selected
\* element (and the handle of the item drawn for it): its position, page,
\* content and colour, every other element, the list and the selection are
\* as before; with no element selected nothing changes.
ResizeChangesSizeOnly ==
    [][\A up \in BOOLEAN :
          CtrlScroll(up) =>
              /\ selected_element' = selected_element
              /\ signature_elements' = signature_elements
              /\ \A e \in ElemIds :
                     IF e = selected_element
                     THEN [elem'[e] EXCEPT !.width = elem[e].width,
                                           !.height = elem[e].height,
                                           !.canvas_id = elem[e].canvas_id] = elem[e]
                     ELSE elem'[e] = elem[e]
              /\ selected_element = None =>
                     /\ ModelState' = ModelState
                     /\ canvas' = canvas
                     /\ feedback_timers' = feedback_timers]_vars

\* The text, the second of two elements, has been resized.
ResizedSecondText ==
    /\ last_scroll # "none"
    /\ Len(signature_elements) = 2
    /\ selected_element = signature_elements[2]
    /\ elem[selected_element].element_type = "text"
    /\ elem[selected_element].width # F(200)

(***************************************************************************)
(* Zoom and the interaction state.                                         *)
(***************************************************************************)
\* C25: a zoom in, zoom out or zoom reset leaves the interaction state as
\* it was: the element selected before is selected after, and the element
\* being edited before is being edited after, in its edit box.
ZoomKeepsInteraction ==
    [][ZoomStep =>
          /\ selected_element' = selected_element
          /\ is_editing_text' = is_editing_text
          /\ EditSurfaces' = EditSurfaces]_vars

(***************************************************************************)
(* Confirming an edit.                                                     *)
(***************************************************************************)
\* The edit of the Entry n is confirmed: Return is pressed in it, or it
\* loses the focus, while an edit is open.
Confirm(n) ==
    /\ is_editing_text
    /\ text_entry # None
    /\ \/ focus = n /\ Return
       \/ focus_out = n /\ FocusOut

\* C26: confirming an edit, by Return or by loss of focus, sets the content
\* of the element the Entry was opened for to the trimmed text of that
\* Entry (the default text when nothing is left of it), and changes the
\* content of no other element.
ConfirmStoresOwnText ==
    [][\A n \in EntryIds : \A e \in ElemIds :
          (Confirm(n) /\ entries[n].element = e) =>
              /\ elem'[e] # NoElem =>
                     elem'[e].content =
                         IF strip(entries[n].text) = <<>>
                         THEN DefaultText ELSE strip(entries[n].text)
              /\ \A o \in ElemIds \ {e} :
                     elem'[o] # NoElem => elem'[o].content = elem[o].content]_vars

(***************************************************************************)
(* One drag: a saved signature is placed, the view is zoomed, the button   *)
(* is pressed on the image and the pointer is moved, in up to three moves, *)
(* before the button is released.  Nothing is pressed once the image has   *)
(* been moved.                                                             *)
(***************************************************************************)
MaxDragElems == 1
MaxDragZoom == 2
MaxDragMoves == 3

\* Where the button is pressed.
DragPress == Pt(120, 120)
\* Where the pointer is moved to.
DragPoints == {Pt(120, 120), Pt(131, 127), Pt(90, 140), Pt(400, 400)}

InitDrag ==
    /\ Constructed
    /\ quota = [zoom |-> MaxDragZoom, scroll |-> 0, turns |-> Unlimited,
                drag |-> MaxDragMoves, add |-> MaxDragElems, blank |-> Unlimited,
                steps |-> Unlimited]

NextDrag ==
    \/ (pdf_doc = None /\ OpenPdf)
    \/ \E file_path \in {PathA} : OpenPdfAnswer(file_path)
    \/ PressWidget
    \/ UseSaved
    \/ ZoomIn
    \/ ZoomOut
    \/ (used.drag = 0 /\ Press(DragPress))
    \/ \E p \in DragPoints : Motion(p)
    \/ Release

SpecDrag == InitDrag /\ [][NextDrag]_vars

\* C27: during a drag at zoom z the stored position of the dragged element
\* is where it was at the press plus (pointer - pointer at the press) / z,
\* however many moves the pointer has made since the press.
DragTotalIsPointerDelta ==
    (button_down /\ selected_element # None) =>
        \A p \in pointer :
            /\ Near(elem[selected_element].x,
                    ImageElement(S).x + FDiv(F(p.x - DragPress.x), zoom_level))
            /\ Near(elem[selected_element].y,
                    ImageElement(S).y + FDiv(F(p.y - DragPress.y), zoom_level))

\* The image has been dragged in three moves, zoomed in, and is not where
\* it was.
DraggedInThreeMoves ==
    /\ button_down
    /\ selected_element # None
    /\ used.drag = MaxDragMoves
    /\ zoom_level > F(1)
    /\ elem[selected_element].x # ImageElement(S).x

(***************************************************************************)
(* Gestures during an edit.                                                *)
(***************************************************************************)
\* The element whose edit is open: the one the Entry in text_entry was
\* opened for.
Edited ==
    IF is_editing_text /\ text_entry # None
    THEN {entries[text_entry].element} \ {None} ELSE {}

\* C28: while an element is being edited a drag or a ctrl+scroll changes
\* neither its position nor its size and does not draw it; and only a
\* confirm (Return, loss of focus) or a cancel (Escape) ends the edit.
EditExcludesGestures ==
    [][/\ \A e \in Edited :
              ((\E p \in StackPoints : Motion(p)) \/ (\E up \in BOOLEAN : CtrlScroll(up))) =>
                  /\ Geometry(elem'[e]) = Geometry(elem[e])
                  /\ \A i \in 1 .. Len(canvas') :
                         (canvas'[i].kind = "signature" /\ canvas'[i].of = e) =>
                             \E j \in 1 .. Len(canvas) : canvas[j] = canvas'[i]
       /\ (is_editing_text /\ ~is_editing_text') => (Return \/ Escape \/ FocusOut)]_vars

(***************************************************************************)
(* Elements and their canvas items.                                        *)
(***************************************************************************)
\* The items on the canvas that were drawn for the element.
ItemsFor(e) ==
    {i \in 1 .. Len(canvas) : canvas[i].kind = "signature" /\ canvas[i].of = e}

\* C29: an element has one item on the canvas at most, and its canvas_id
\* is the handle of that item; an element being edited has none; and the
\* handle a drag moves, or a ctrl+scroll deletes, is that of an item on
\* the canvas.
OneLiveItem ==
    [][/\ \A e \in ElemIds :
              /\ Cardinality(ItemsFor(e)') <= 1
              /\ ItemsFor(e)' \subseteq ItemOf(e)'
       /\ \A e \in Edited' : ItemsFor(e)' = {}
       /\ (/\ (\E p \in StackPoints : Motion(p)) \/ (\E up \in BOOLEAN : CtrlScroll(up))
           /\ selected_element # None
           /\ elem[selected_element].canvas_id # None)
          => ItemOf(selected_element) # {}]_vars

(***************************************************************************)
(* Elements on the page raster.                                            *)
(***************************************************************************)
\* Two pixel coordinates are the same, to the pixel a rounding can cost.
SamePixel(a, b) == a - b <= 1 /\ b - a <= 1

\* C30: at every zoom an element is drawn at (x * zoom, y * zoom) from the
\* origin of the page raster shown: the raster and the elements are shifted
\* by the same horizontal offset.
ElementsDrawnOnRaster ==
    \A i \in 1 .. Len(canvas) : \A e \in ElemIds :
        (canvas[i].kind = "pdf_page" /\ InList(S, e)) =>
            \A j \in ItemOf(e) :
                /\ SamePixel(canvas[j].x1 - canvas[i].x1, TkRound(FMul(elem[e].x, zoom_level)))
                /\ SamePixel(canvas[j].y1 - canvas[i].y1, TkRound(FMul(elem[e].y, zoom_level)))

(***************************************************************************)
(* Page navigation and the list.                                           *)
(***************************************************************************)
\* What the list holds of an element: all but the handle of its item.
Stored(el) == [el EXCEPT !.canvas_id = None]

\* C31: a previous page or next page leaves the list as it was, the same
\* elements in the same order with the same geometry, content and page,
\* and the current page within 0 .. page count - 1.
NavigationKeepsList ==
    [][(PrevPage \/ NextPage) =>
          /\ signature_elements' = signature_elements
          /\ \A e \in ElemIds : InList(S, e) => Stored(elem'[e]) = Stored(elem[e])
          /\ pdf_doc' # None =>
                 0 <= current_page' /\ current_page' <= Len(Pages(pdf_doc')) - 1]_vars

\* The second page is shown, turned to from the first, and the list holds
\* two elements, one of each page.
TurnedPageWithElements ==
    /\ current_page = 1
    /\ Len(signature_elements) = 2
    /\ elem[signature_elements[1]].page_num = 0
    /\ elem[signature_elements[2]].page_num = 1

(***************************************************************************)
(* Where an export places the elements.                                    *)
(***************************************************************************)
\* The insertion is that of the element el with the scale base_scale: an
\* image in its rectangle, a text at the bottom left of its box, on the
\* page of the element.
PlacedAt(ins, el, base_scale) ==
    /\ ins.page = el.page_num
    /\ \/ /\ el.element_type = "image"
          /\ ins.op = "insert_image"
          /\ ins.x0 = FDiv(el.x, base_scale)
          /\ ins.y0 = FDiv(el.y, base_scale)
          /\ ins.x1 = FDiv(el.x + el.width, base_scale)
          /\ ins.y1 = FDiv(el.y + el.height, base_scale)
       \/ /\ el.element_type = "text"
          /\ ins.op = "insert_text"
          /\ ins.text = el.content
          /\ ins.x = FDiv(el.x, base_scale)
          /\ ins.y = FDiv(el.y + el.height, base_scale)

\* The insertions of elements in a written file.
Placements(doc) ==
    {i \in 1 .. Len(doc.inserted) : doc.inserted[i].op \in {"insert_image", "insert_text"}}

\* C32: an export places every element of the list, once, on the page of
\* the element: an image in the rectangle (x, y, x + width, y + height)
\* divided by the base scale, a text at the point (x, y + height) divided
\* by the base scale.
ExportPlacesEveryElement ==
    [][ExportAttempt("none") =>
          \A doc \in {output'[1]} :
              /\ Cardinality(Placements(doc)) = Len(signature_elements)
              /\ \A k \in 1 .. Len(signature_elements) :
                     \E i \in Placements(doc) :
                         PlacedAt(doc.inserted[i], elem[signature_elements[k]],
                                  base_scale_factor)]_vars

\* A file was written with a text and an image in it while the view was
\* zoomed.
TextAndImageExported ==
    /\ output # <<>>
    /\ output[1].complete
    /\ zoom_level # F(1)
    /\ \E i, j \in Placements(output[1]) :
           /\ output[1].inserted[i].op = "insert_text"
           /\ output[1].inserted[j].op = "insert_image"

\* canvas_width / width of a page of the document that is open.
BaseScaleOf(page_num) ==
    (canvas_width * Unit + Pages(pdf_doc)[page_num + 1].width \div 2)
        \div Pages(pdf_doc)[page_num + 1].width

\* C33: where an export places an element does not depend on the page that
\* is displayed: every element is converted with the base scale of its own
\* page, canvas width / width of that page.
ExportScalesByOwnPage ==
    [][ExportAttempt("none") =>
          \A k \in 1 .. Len(signature_elements) :
              \E i \in Placements(output'[1]) :
                  PlacedAt(output'[1].inserted[i], elem[signature_elements[k]],
                           BaseScaleOf(elem[signature_elements[k]].page_num))]_vars

(***************************************************************************)
(* The selection: elements are added on either page, selected by a click   *)
(* or from the list and deleted, pages are turned, and a document is       *)
(* opened again, one that can be read or one that cannot.                  *)
(***************************************************************************)
MaxSelectElems == 2

InitSelect ==
    /\ Constructed
    /\ quota = [zoom |-> 0, scroll |-> 0, turns |-> Unlimited, drag |-> 0,
                add |-> MaxSelectElems, blank |-> Unlimited, steps |-> Unlimited]

NextSelect ==
    \/ OpenPdf
    \/ \E file_path \in {PathA, BadPath} : OpenPdfAnswer(file_path)
    \/ PressWidget
    \/ UseSaved
    \/ AddText
    \/ \E e \in ElemIds : EditTimer(e)
    \/ FocusOut
    \/ \E p \in DeletePoints : Press(p)
    \/ Release
    \/ DeleteSelected
    \/ \E index \in 0 .. (MaxSelectElems - 1) : ListboxSelect(index)
    \/ NextPage
    \/ PrevPage

SpecSelect == InitSelect /\ [][NextSelect]_vars

\* C34: the selected element, if any, is in the list and on the current
\* page.
SelectedIsListedOnPage ==
    selected_element # None =>
        /\ InList(S, selected_element)
        /\ elem[selected_element].page_num = current_page

(***************************************************************************)
(* Deferred callbacks and the element in edit.                             *)
(***************************************************************************)
\* C35: however the gestures and the deferred callbacks interleave, the
\* element in inline edit is in the list and on the current page: a
\* deferred edit start or confirm does not act on an element that was
\* deleted or left behind by a page change.
EditedIsListedOnPage ==
    \A e \in Edited :
        /\ InList(S, e)
        /\ elem[e].page_num = current_page

====
